---- MODULE Spec2Model ----
(***************************************************************************)
(* A model of Complex.js v2.4.3 (src/src/complex.js): the Normalizer       *)
(* (parse) with its shared scratch record P, the Complex constructor, the  *)
(* arithmetic operations and the named constants, as a state machine of a  *)
(* client that constructs values and calls operations on them.             *)
(*                                                                         *)
(* JavaScript values are tagged tuples:                                    *)
(*   <<"num", n, d>>   a number: d > 0 is the finite rational n/d in       *)
(*                     lowest terms; d = 0 is +Infinity (n = 1),           *)
(*                     -Infinity (n = -1) or NaN (n = 0)                   *)
(*   <<"str", cs>>     a string, cs the sequence of its characters         *)
(*   <<"null">>, <<"undef">>, <<"bool", b>>, <<"obj">> (an object with no  *)
(*                     recognised key)                                     *)
(*   <<"reim", u, v>>, <<"absarg", u, v>>, <<"rphi", u, v>>, <<"ri", u, v>>*)
(*                     objects holding exactly that key pair               *)
(*   <<"arr", vs>>     an array with elements vs                           *)
(*   <<"ref", o>>      a reference to the Complex object o of the heap     *)
(*                                                                         *)
(* Floating point is modelled by its range, not its precision: a finite    *)
(* result is an exact rational, a result of magnitude above MaxFloat       *)
(* overflows to an infinity and a nonzero result of magnitude below        *)
(* 1/MaxFloat underflows to 0.  The sign of zero is not modelled.          *)
(***************************************************************************)
EXTENDS Integers, Sequences, FiniteSets, TLC

\* ------------------------------------------------------------------ bounds
\* Integers offered as inputs are -MaxInt .. MaxInt.
MaxInt == 2
\* The largest finite number of the modelled float format (Number.MAX_VALUE).
MaxFloat == 64

\* ----------------------------------------------------------------- numbers
Abs(k) == IF k < 0 THEN -k ELSE k

Sgn(k) == IF k < 0 THEN -1 ELSE IF k > 0 THEN 1 ELSE 0

RECURSIVE GCD(_, _)
GCD(a, b) == IF b = 0 THEN a ELSE GCD(b, a % b)

NaN == <<"num", 0, 0>>

PosInf == <<"num", 1, 0>>

NegInf == <<"num", -1, 0>>

NumInt(k) == <<"num", k, 1>>

\* The number n/d (d # 0) as the float format holds it: lowest terms, the
\* sign on the numerator, overflow to an infinity, underflow to zero.
Norm(n, d) ==
  LET s == Sgn(n) * Sgn(d)
      an == Abs(n)
      ad == Abs(d)
      g == GCD(an, ad)
  IN  IF an = 0 THEN NumInt(0)
      ELSE IF an \div ad > MaxFloat \/ (an \div ad = MaxFloat /\ an % ad # 0)
           THEN <<"num", s, 0>>
      ELSE IF ad \div an > MaxFloat \/ (ad \div an = MaxFloat /\ ad % an # 0)
           THEN NumInt(0)
      ELSE <<"num", s * (an \div g), ad \div g>>

NumIsNaN(v) == v[3] = 0 /\ v[2] = 0

NumIsFinite(v) == v[3] # 0

NumIsInf(v) == v[3] = 0 /\ v[2] # 0

\* IEEE addition.
FAdd(u, v) ==
  IF NumIsNaN(u) \/ NumIsNaN(v) THEN NaN
  ELSE IF NumIsInf(u) THEN (IF NumIsInf(v) /\ v[2] # u[2] THEN NaN ELSE u)
  ELSE IF NumIsInf(v) THEN v
  ELSE Norm(u[2] * v[3] + v[2] * u[3], u[3] * v[3])

FNeg(v) == <<"num", -v[2], v[3]>>

FSub(u, v) == FAdd(u, FNeg(v))

\* IEEE multiplication.
FMul(u, v) ==
  IF NumIsNaN(u) \/ NumIsNaN(v) THEN NaN
  ELSE IF NumIsInf(u) \/ NumIsInf(v)
       THEN (IF u[2] = 0 \/ v[2] = 0 THEN NaN
             ELSE <<"num", Sgn(u[2]) * Sgn(v[2]), 0>>)
  ELSE Norm(u[2] * v[2], u[3] * v[3])

\* IEEE division (a zero divisor counts as +0).
FDiv(u, v) ==
  IF NumIsNaN(u) \/ NumIsNaN(v) THEN NaN
  ELSE IF NumIsInf(u)
       THEN (IF NumIsInf(v) THEN NaN
             ELSE <<"num", u[2] * (IF v[2] < 0 THEN -1 ELSE 1), 0>>)
  ELSE IF NumIsInf(v) THEN NumInt(0)
  ELSE IF v[2] = 0
       THEN (IF u[2] = 0 THEN NaN ELSE <<"num", Sgn(u[2]), 0>>)
  ELSE Norm(u[2] * v[3], u[3] * v[2])

\* Math.abs on a number.
FAbs(v) == <<"num", Abs(v[2]), v[3]>>

\* u < v on numbers (false when either is NaN).
FLt(u, v) ==
  IF NumIsNaN(u) \/ NumIsNaN(v) THEN FALSE
  ELSE IF NumIsInf(u) THEN u[2] < 0 /\ v # u
  ELSE IF NumIsInf(v) THEN v[2] > 0
  ELSE u[2] * v[3] < v[2] * u[3]

\* The fraction n/d (d # 0) in lowest terms, with no limit of range.
Ratio(n, d) ==
  <<"num", Sgn(d) * (n \div GCD(Abs(n), Abs(d))), Abs(d) \div GCD(Abs(n), Abs(d))>>

\* Sum, product and quotient of fractions in exact arithmetic.
RatAdd(u, v) == Ratio(u[2] * v[3] + v[2] * u[3], u[3] * v[3])

RatMul(u, v) == Ratio(u[2] * v[2], u[3] * v[3])

RatDiv(u, v) == Ratio(u[2] * v[3], u[3] * v[2])

\* The integer part of a finite number (towards zero), its floor and what
\* it exceeds its floor by.
Trunc(v) == NumInt(Sgn(v[2]) * (Abs(v[2]) \div v[3]))

Floor(v) == v[2] \div v[3]

Frac(v) == Ratio(v[2] % v[3], v[3])

\* Number::remainder, the operator %: the sign of the dividend.
FMod(u, v) ==
  IF NumIsNaN(u) \/ NumIsNaN(v) \/ NumIsInf(u) \/ v = NumInt(0) THEN NaN
  ELSE IF NumIsInf(v) THEN u
  ELSE FSub(u, FMul(v, Trunc(FDiv(u, v))))

\* The results of the transcendental functions are irrational: the model
\* holds the multiple of 1/GridDen nearest a rational near each, and the
\* values the functions take exactly (exp(0) = 1, log(1) = 0, cos(0) = 1).
GridDen == 8

\* n/d (d > 0) rounded to the nearest multiple of 1/GridDen.
Quantize(n, d) ==
  Norm((n \div d) * GridDen + ((n % d) * GridDen * 2 + d) \div (2 * d), GridDen)

OnGrid(v) == IF NumIsFinite(v) THEN Quantize(v[2], v[3]) ELSE v

\* x^k for an integer k >= 0 by repeated multiplication.
RECURSIVE PosPow(_, _)
PosPow(x, k) == IF k = 0 THEN NumInt(1) ELSE FMul(x, PosPow(x, k - 1))

\* x^k for an integer k.
IntPow(x, k) ==
  IF k < 0 THEN FDiv(NumInt(1), PosPow(x, -k)) ELSE PosPow(x, k)

\* Math.LN2.
MathLN2 == <<"num", 7, 10>>

\* log2 of n/d >= 1, linear between the powers of two.
RECURSIVE Log2Up(_, _)
Log2Up(n, d) ==
  IF n >= 2 * d THEN FAdd(NumInt(1), Log2Up(n, 2 * d)) ELSE Ratio(n - d, d)

\* Math.log on numbers.
FLog(x) ==
  IF NumIsNaN(x) \/ x[2] < 0 THEN NaN
  ELSE IF x = NumInt(0) THEN NegInf
  ELSE IF NumIsInf(x) THEN PosInf
  ELSE IF x[2] < x[3] THEN OnGrid(FNeg(FMul(MathLN2, Log2Up(x[3], x[2]))))
  ELSE OnGrid(FMul(MathLN2, Log2Up(x[2], x[3])))

\* 2^y, linear between the integers.
Exp2(y) ==
  IF NumIsInf(y) THEN (IF y[2] > 0 THEN PosInf ELSE NumInt(0))
  ELSE OnGrid(FMul(IntPow(NumInt(2), Floor(y)), FAdd(NumInt(1), Frac(y))))

\* Math.exp on numbers: 2^(x / ln 2).
FExp(x) == IF NumIsNaN(x) THEN NaN ELSE Exp2(FDiv(x, MathLN2))

\* Math.pow with an infinite exponent y; ax = |x|.
PowInfExp(ax, y) ==
  IF ax = NumInt(1) THEN NaN
  ELSE IF FLt(NumInt(1), ax) = (y[2] > 0) THEN PosInf
  ELSE NumInt(0)

\* Math.pow with an infinite base x and a finite exponent y # 0.
PowInfBase(x, y) ==
  IF y[2] < 0 THEN NumInt(0)
  ELSE IF x[2] < 0 /\ y[3] = 1 /\ y[2] % 2 = 1 THEN NegInf
  ELSE PosInf

\* Math.pow on numbers (Number::exponentiate).
FPow(x, y) ==
  IF NumIsNaN(y) THEN NaN
  ELSE IF y = NumInt(0) THEN NumInt(1)
  ELSE IF NumIsNaN(x) THEN NaN
  ELSE IF NumIsInf(y) THEN PowInfExp(FAbs(x), y)
  ELSE IF NumIsInf(x) THEN PowInfBase(x, y)
  ELSE IF x = NumInt(0) THEN (IF y[2] > 0 THEN NumInt(0) ELSE PosInf)
  ELSE IF y[3] = 1 THEN IntPow(x, y[2])
  ELSE IF x[2] < 0 THEN NaN
  ELSE FExp(FMul(y, FLog(x)))

\* ----------------------------------------------------------------- strings
\* Fraction digits Number::toString prints before it stops (the shortest
\* round-trip form of a double has at most 17 significant digits).
FracDigits == 6

Digits == <<"0", "1", "2", "3", "4", "5", "6", "7", "8", "9">>

IsDigit(c) == \E k \in 1..10 : Digits[k] = c

DigitVal(c) == (CHOOSE k \in 1..10 : Digits[k] = c) - 1

\* What StringToNumber and parseFloat strip: space, tab, newline.
IsWhite(c) == c \in {" ", "\t", "\n"}

\* The index after the run of digits of cs that starts at i.
RECURSIVE DigitsEnd(_, _)
DigitsEnd(cs, i) ==
  IF i <= Len(cs) /\ IsDigit(cs[i]) THEN DigitsEnd(cs, i + 1) ELSE i

\* The value of the digits cs[i .. j-1], continuing from acc.
RECURSIVE DigitsValue(_, _, _, _)
DigitsValue(cs, i, j, acc) ==
  IF i >= j THEN acc ELSE DigitsValue(cs, i + 1, j, acc * 10 + DigitVal(cs[i]))

RECURSIVE Pow10(_)
Pow10(k) == IF k <= 0 THEN 1 ELSE 10 * Pow10(k - 1)

\* The least k with 10^k > MaxFloat: a nonzero mantissa of an integer scaled
\* by 10^k overflows.
RECURSIVE ExpCapFrom(_)
ExpCapFrom(k) == IF Pow10(k) > MaxFloat THEN k ELSE ExpCapFrom(k + 1)

ExpCap == ExpCapFrom(0)

\* The number of decimal digits of the integer k >= 0.
RECURSIVE NumDigits(_)
NumDigits(k) == IF k < 10 THEN 1 ELSE 1 + NumDigits(k \div 10)

\* m * 10^e as the float format holds it (m >= 0 an integer).
Scale10(m, e) ==
  IF m = 0 THEN NumInt(0)
  ELSE IF e >= ExpCap THEN PosInf
  ELSE IF -e >= NumDigits(m) + ExpCap THEN NumInt(0)
  ELSE IF e >= 0 THEN Norm(m * Pow10(e), 1)
  ELSE Norm(m, Pow10(-e))

\* What a scan for a literal hands back: whether it found one, its value and
\* the index after it.
Scanned(val, end) == [ok |-> TRUE, val |-> val, end |-> end]

NotScanned(i) == [ok |-> FALSE, val |-> NaN, end |-> i]

\* The index after the sign at index i of cs, if there is one.
SignEnd(cs, i) ==
  IF i <= Len(cs) /\ cs[i] \in {"+", "-"} THEN i + 1 ELSE i

\* The index after the fraction (a dot and its digits) at index i2 of cs.
FractionEnd(cs, i2) ==
  IF i2 <= Len(cs) /\ cs[i2] = "." THEN DigitsEnd(cs, i2 + 1) ELSE i2

\* The index of the first digit of the exponent whose letter stands at index
\* i3 of cs.
ExponentStart(cs, i3) ==
  IF i3 + 1 <= Len(cs) /\ cs[i3 + 1] \in {"+", "-"} THEN i3 + 2 ELSE i3 + 1

\* The index after the exponent at index i3 of cs (i3 when there is none).
ExponentEnd(cs, i3) ==
  IF i3 <= Len(cs) /\ cs[i3] \in {"e", "E"}
     /\ DigitsEnd(cs, ExponentStart(cs, i3)) > ExponentStart(cs, i3)
  THEN DigitsEnd(cs, ExponentStart(cs, i3))
  ELSE i3

\* The exponent cs[i3 .. j-1] (0 when j = i3: there is none).
ExponentValue(cs, i3, j) ==
  IF j = i3 THEN 0
  ELSE IF cs[i3 + 1] = "-" THEN -DigitsValue(cs, i3 + 2, j, 0)
  ELSE DigitsValue(cs, ExponentStart(cs, i3), j, 0)

\* mag with the sign that stands at index i of cs.
WithSign(cs, i, mag) == IF cs[i] = "-" THEN FNeg(mag) ELSE mag

\* The number of digits of the fraction cs[i2 .. i3-1].
FractionLen(i2, i3) == IF i3 > i2 THEN i3 - (i2 + 1) ELSE 0

\* The number with the sign at i, the digits cs[i1 .. i2-1], the fraction
\* cs[i2 .. i3-1] and the exponent cs[i3 .. j-1].
LiteralValue(cs, i, i1, i2, i3, j) ==
  IF FractionLen(i2, i3) + (i2 - i1) = 0 THEN NotScanned(i)
  ELSE Scanned(WithSign(cs, i,
                 Scale10(DigitsValue(cs, i2 + 1, i3, DigitsValue(cs, i1, i2, 0)),
                         ExponentValue(cs, i3, j) - FractionLen(i2, i3))),
               j)

ScanExponent(cs, i, i1, i2, i3) ==
  LiteralValue(cs, i, i1, i2, i3, ExponentEnd(cs, i3))

ScanFraction(cs, i, i1, i2) == ScanExponent(cs, i, i1, i2, FractionEnd(cs, i2))

ScanDigits(cs, i, i1) == ScanFraction(cs, i, i1, DigitsEnd(cs, i1))

\* The longest prefix of cs from index i that is a StrDecimalLiteral (sign,
\* digits, fraction, exponent).
ScanNumber(cs, i) == ScanDigits(cs, i, SignEnd(cs, i))

RECURSIVE SkipWhite(_, _)
SkipWhite(cs, i) ==
  IF i <= Len(cs) /\ IsWhite(cs[i]) THEN SkipWhite(cs, i + 1) ELSE i

InfinityChars == <<"I", "n", "f", "i", "n", "i", "t", "y">>

\* Whether cs holds the word Infinity from index i on.
HasInfinityAt(cs, i) ==
  /\ i + 7 <= Len(cs)
  /\ \A k \in 1..8 : cs[i + k - 1] = InfinityChars[k]

\* The signed literal (Infinity or a decimal one) at index i of cs.
ScanLiteral(cs, i) ==
  IF HasInfinityAt(cs, SignEnd(cs, i))
  THEN Scanned(IF cs[i] = "-" THEN NegInf ELSE PosInf, SignEnd(cs, i) + 8)
  ELSE ScanNumber(cs, i)

\* parseFloat: the longest numeric prefix after leading white space, NaN
\* when there is none.
parseFloat(cs) == ScanLiteral(cs, SkipWhite(cs, 1)).val

\* The value of the literal r when nothing but white space follows it in cs.
WholeLiteral(cs, r) ==
  IF r.ok /\ SkipWhite(cs, r.end) > Len(cs) THEN r.val ELSE NaN

\* The value of the trimmed string cs whose first character stands at i.
TrimmedToNumber(cs, i) ==
  IF i > Len(cs) THEN NumInt(0) ELSE WholeLiteral(cs, ScanLiteral(cs, i))

\* StringToNumber (the coercion Number(s), used by isNaN and isFinite): the
\* whole string, trimmed, is a literal; the empty string is 0.
StringToNumber(cs) == TrimmedToNumber(cs, SkipWhite(cs, 1))

\* The decimal digits of the integer k >= 0.
RECURSIVE IntChars(_)
IntChars(k) ==
  IF k < 10 THEN <<Digits[k + 1]>>
  ELSE IntChars(k \div 10) \o <<Digits[(k % 10) + 1]>>

\* The fraction digits of r/d (0 <= r < d), at most k of them.
RECURSIVE FracChars(_, _, _)
FracChars(r, d, k) ==
  IF r = 0 \/ k = 0 THEN <<>>
  ELSE <<Digits[((r * 10) \div d) + 1]>> \o FracChars((r * 10) % d, d, k - 1)

\* Number::toString.
NumToString(v) ==
  IF NumIsNaN(v) THEN <<"N", "a", "N">>
  ELSE IF NumIsInf(v)
       THEN (IF v[2] < 0 THEN <<"-">> ELSE <<>>) \o InfinityChars
  ELSE LET an == Abs(v[2])
           fr == FracChars(an % v[3], v[3], FracDigits)
       IN  (IF v[2] < 0 THEN <<"-">> ELSE <<>>)
           \o IntChars(an \div v[3])
           \o (IF fr = <<>> THEN <<>> ELSE <<".">> \o fr)

\* ------------------------------------------------------------ JS coercions
Null == <<"null">>

Undef == <<"undef">>

Str(cs) == <<"str", cs>>

ObjectChars ==
  <<"[", "o", "b", "j", "e", "c", "t", " ", "O", "b", "j", "e", "c", "t", "]">>

\* typeof v
TypeOf(v) ==
  CASE v[1] = "num" -> "number"
    [] v[1] = "str" -> "string"
    [] v[1] = "undef" -> "undefined"
    [] v[1] = "bool" -> "boolean"
    [] OTHER -> "object"

\* ToPrimitive of the values a component can hold: a plain object is its
\* string "[object Object]".
ToPrimitive(v) == IF v[1] = "obj" THEN Str(ObjectChars) ELSE v

\* ToNumber of a primitive.
ToNumberPrim(v) ==
  CASE v[1] = "num" -> v
    [] v[1] = "str" -> StringToNumber(v[2])
    [] v[1] = "null" -> NumInt(0)
    [] v[1] = "undef" -> NaN
    [] v[1] = "bool" -> NumInt(IF v[2] THEN 1 ELSE 0)

ToNumber(v) == ToNumberPrim(ToPrimitive(v))

\* ToString of a primitive.
ToStringPrim(v) ==
  CASE v[1] = "num" -> NumToString(v)
    [] v[1] = "str" -> v[2]
    [] v[1] = "null" -> <<"n", "u", "l", "l">>
    [] v[1] = "undef" -> <<"u", "n", "d", "e", "f", "i", "n", "e", "d">>
    [] v[1] = "bool" -> IF v[2] THEN <<"t", "r", "u", "e">>
                        ELSE <<"f", "a", "l", "s", "e">>

\* u + v: concatenation when either primitive is a string.
JsAdd(u, v) ==
  LET pu == ToPrimitive(u)
      pv == ToPrimitive(v)
  IN  IF pu[1] = "str" \/ pv[1] = "str"
      THEN Str(ToStringPrim(pu) \o ToStringPrim(pv))
      ELSE FAdd(ToNumberPrim(pu), ToNumberPrim(pv))

\* u - v, u * v, u / v, -v: always numeric.
JsSub(u, v) == FSub(ToNumber(u), ToNumber(v))

JsMul(u, v) == FMul(ToNumber(u), ToNumber(v))

JsDiv(u, v) == FDiv(ToNumber(u), ToNumber(v))

JsNeg(v) == FNeg(ToNumber(v))

\* Math.abs(v)
MathAbs(v) == FAbs(ToNumber(v))

\* u <= v
FLe(a, b) == ~NumIsNaN(a) /\ ~NumIsNaN(b) /\ ~FLt(b, a)

JsLe(u, v) == FLe(ToNumber(u), ToNumber(v))

\* The global isFinite(v) and isNaN(v), which coerce their argument.
isFinite(v) == NumIsFinite(ToNumber(v))

isNaN(v) == NumIsNaN(ToNumber(v))

\* u === v on the values a component can hold (an object equals only itself,
\* and the model holds no two references to one plain object).
StrictEq(u, v) ==
  /\ u[1] = v[1]
  /\ u[1] # "obj"
  /\ u = v
  /\ ~(u[1] = "num" /\ NumIsNaN(u))

\* Math.PI and Math.E are irrational; the model holds a rational near each.
MathPI == <<"num", 22, 7>>

MathE == <<"num", 19, 7>>

\* The quarter turn pi/2, and the number of quarter turns in the angle a.
HalfPI == <<"num", 11, 7>>

QuarterTurns(a) == RatDiv(a, HalfPI)

\* The cosine of q quarter turns and the part t of a quarter turn, linear
\* between the quarter turns.
TurnCos(q, t) ==
  CASE q = 0 -> RatAdd(NumInt(1), FNeg(t))
    [] q = 1 -> FNeg(t)
    [] q = 2 -> RatAdd(t, NumInt(-1))
    [] q = 3 -> t

\* Math.cos and Math.sin on numbers: exact at 0, NaN at the non-finite
\* angles, else on the grid (sin x = cos(x - pi/2)).
FCos(a) ==
  CASE ~NumIsFinite(a) -> NaN
    [] a = NumInt(0) -> NumInt(1)
    [] OTHER -> OnGrid(TurnCos(Floor(QuarterTurns(a)) % 4, Frac(QuarterTurns(a))))

FSin(a) ==
  CASE ~NumIsFinite(a) -> NaN
    [] a = NumInt(0) -> NumInt(0)
    [] OTHER -> OnGrid(TurnCos((Floor(QuarterTurns(a)) + 3) % 4,
                               Frac(QuarterTurns(a))))

MathCos(v) == FCos(ToNumber(v))

MathSin(v) == FSin(ToNumber(v))

\* v with the sign of y.
SignOf(y, v) == IF y[2] < 0 THEN FNeg(v) ELSE v

\* The angle of the point (x, ay), ay > 0, both finite: linear in
\* ay / (|x| + ay) within the quarter turn.
TurnAngle(ay, x, t) ==
  IF x[2] < 0 THEN OnGrid(RatMul(HalfPI, RatAdd(NumInt(2), FNeg(t))))
  ELSE OnGrid(RatMul(HalfPI, t))

\* Math.atan2 on numbers.
FAtan2(y, x) ==
  IF NumIsNaN(y) \/ NumIsNaN(x) THEN NaN
  ELSE IF y = NumInt(0) THEN (IF x[2] < 0 THEN MathPI ELSE NumInt(0))
  ELSE IF NumIsInf(y) /\ NumIsInf(x)
       THEN SignOf(y, OnGrid(RatMul(HalfPI, <<"num", 2 - Sgn(x[2]), 2>>)))
  ELSE IF NumIsInf(y) \/ x = NumInt(0) THEN SignOf(y, OnGrid(HalfPI))
  ELSE IF NumIsInf(x) THEN SignOf(y, IF x[2] < 0 THEN MathPI ELSE NumInt(0))
  ELSE SignOf(y, TurnAngle(FAbs(y), x, RatDiv(FAbs(y), RatAdd(FAbs(x), FAbs(y)))))

MathAtan2(u, v) == FAtan2(ToNumber(u), ToNumber(v))

MathPow(u, v) == FPow(ToNumber(u), ToNumber(v))

MathExp(v) == FExp(ToNumber(v))

MathLog(v) == FLog(ToNumber(v))

\* u % v
JsMod(u, v) == FMod(ToNumber(u), ToNumber(v))

\* u > v, where one of the two is a number.
JsGt(u, v) == FLt(ToNumber(v), ToNumber(u))

\* u < v, where one of the two is a number.
JsLt(u, v) == FLt(ToNumber(u), ToNumber(v))

\* Math.floor(v) and Math.ceil(v): towards -Infinity and towards +Infinity.
FFloor(v) == IF NumIsFinite(v) THEN NumInt(Floor(v)) ELSE v

FCeil(v) == IF NumIsFinite(v) THEN NumInt(-((-v[2]) \div v[3])) ELSE v

MathFloor(v) == FFloor(ToNumber(v))

MathCeil(v) == FCeil(ToNumber(v))

\* ToBoolean of a primitive, and u || v.
ToBoolean(v) ==
  CASE v[1] = "num" -> ~NumIsNaN(v) /\ v # NumInt(0)
    [] v[1] = "str" -> v[2] # <<>>
    [] v[1] = "bool" -> v[2]
    [] v[1] \in {"null", "undef"} -> FALSE
    [] OTHER -> TRUE

JsOr(u, v) == IF ToBoolean(u) THEN u ELSE v

\* ------------------------------------------------------------------- parse
\* a.replace(/_/g, '')
RECURSIVE StripUnderscores(_)
StripUnderscores(cs) ==
  IF cs = <<>> THEN <<>>
  ELSE (IF Head(cs) = "_" THEN <<>> ELSE <<Head(cs)>>)
       \o StripUnderscores(Tail(cs))

\* The index after the token that /\d+\.?\d*e[+-]?\d+|\d+\.?\d*|\.\d+|./
\* matches at index i of cs, or i when nothing matches there (the dot of a
\* regular expression does not match a newline).
\* \d+\.?\d* matched cs[i .. d3-1]: the index after e[+-]?\d+ when it follows
\* (only a lower-case e does), else d3.
ExponentTokenEnd(cs, d3) ==
  IF d3 <= Len(cs) /\ cs[d3] = "e"
     /\ DigitsEnd(cs, ExponentStart(cs, d3)) > ExponentStart(cs, d3)
  THEN DigitsEnd(cs, ExponentStart(cs, d3))
  ELSE d3

\* \d+ matched cs[i .. d1-1] (d1 > i): the first two alternatives.
NumberTokenEnd(cs, d1) ==
  ExponentTokenEnd(cs,
    DigitsEnd(cs, IF d1 <= Len(cs) /\ cs[d1] = "." THEN d1 + 1 ELSE d1))

\* No digit stands at index i: the last two alternatives.
OtherTokenEnd(cs, i) ==
  IF cs[i] = "." /\ DigitsEnd(cs, i + 1) > i + 1 THEN DigitsEnd(cs, i + 1)
  ELSE IF cs[i] # "\n" THEN i + 1
  ELSE i

TokenEnd(cs, i) ==
  IF IsDigit(cs[i]) THEN NumberTokenEnd(cs, DigitsEnd(cs, i))
  ELSE OtherTokenEnd(cs, i)

\* String.prototype.match with the g flag: the tokens of cs from index i on
\* (the empty sequence stands for match's null); j is the index after the
\* token at i.
\* The index after the token at index k of cs, when there is one.
TokenEndAt(cs, k) == IF k > Len(cs) THEN k ELSE TokenEnd(cs, k)

\* Where the match after the one at i, which ended at j, starts.
NextStart(i, j) == IF j = i THEN i + 1 ELSE j

RECURSIVE TokensFrom(_, _, _)
TokensFrom(cs, i, j) ==
  IF i > Len(cs) THEN <<>>
  ELSE (IF j = i THEN <<>> ELSE <<SubSeq(cs, i, j - 1)>>)
       \o TokensFrom(cs, NextStart(i, j), TokenEndAt(cs, NextStart(i, j)))

Tokenize(cs) == TokensFrom(cs, 1, TokenEndAt(cs, 1))

\* What parse hands back: whether parser_exit threw, the scratch record as
\* the call left it, and whether the returned object is the scratch record
\* ("P") or the constant Complex.INFINITY ("INFINITY").
Returned(p) == [thrown |-> FALSE, P |-> p, src |-> "P"]

Thrown(p) == [thrown |-> TRUE, P |-> p, src |-> "P"]

\* A polar case that returns the scratch record as it stands.
ReturnedStale(p) == Returned(p)

ReturnedInfinity(p) == [thrown |-> FALSE, P |-> p, src |-> "INFINITY"]

\* One pass of the body of the token loop of the string case, at token i
\* (1-based) with the sign counters plus and minus and the scratch record
\* z = <<re, im>>: whether parser_exit threw, and the index of the next
\* token, the counters and the scratch record after it.
Step(thrown, i, plus, minus, z) ==
  [thrown |-> thrown, i |-> i, plus |-> plus, minus |-> minus, z |-> z]

\* tokens[i + 1] (undefined past the end).
TokenAfter(tokens, i) ==
  IF i + 1 <= Len(tokens) THEN Str(tokens[i + 1]) ELSE Undef

\* The term at the token c, which nxt follows: the number of tokens it
\* takes, the component it adds to (1: re, 2: im) and its numeral.
TermAt(c, nxt) ==
  IF c = <<"i">> \/ c = <<"I">>
  THEN (IF nxt # Str(<<" ">>) /\ ~isNaN(nxt) THEN <<2, 2, nxt[2]>>
        ELSE <<1, 2, <<"1">>>>)
  ELSE (IF nxt = Str(<<"i">>) \/ nxt = Str(<<"I">>) THEN <<2, 2, c>>
        ELSE <<1, 1, c>>)

\* A sign that is dropped.
SignedNever(minus, t) == t

\* (minus % 2 ? '-' : '') + t
Signed(minus, t) == (IF minus % 2 = 1 THEN <<"-">> ELSE <<>>) \o t

\* z[...] += parseFloat(...); plus = minus = 0, for the term tm.
AddTerm(i, minus, z, tm) ==
  Step(FALSE, i + tm[1], 0, 0,
       [z EXCEPT ![tm[2]] = FAdd(z[tm[2]], parseFloat(Signed(minus, tm[3])))])

TokenStep(tokens, i, plus, minus, z) ==
  LET c == tokens[i]
  IN  IF c = <<" ">> \/ c = <<"\t">> \/ c = <<"\n">>
      THEN Step(FALSE, i + 1, plus, minus, z)
      ELSE IF c = <<"+">>
      THEN Step(FALSE, i + 1, plus + 1, minus, z)
      ELSE IF c = <<"-">>
      THEN Step(FALSE, i + 1, plus, minus + 1, z)
      ELSE IF plus + minus = 0
              \/ (c # <<"i">> /\ c # <<"I">> /\ isNaN(Str(c)))
      THEN Step(TRUE, i, plus, minus, z)
      ELSE AddTerm(i, minus, z, TermAt(c, TokenAfter(tokens, i)))

\* A token loop with no check after it.
RECURSIVE ScanTokensOnly(_, _)
ScanTokensOnly(tokens, s) ==
  IF s.thrown THEN Thrown(s.z)
  ELSE IF s.i > Len(tokens) THEN Returned(s.z)
  ELSE ScanTokensOnly(tokens, TokenStep(tokens, s.i, s.plus, s.minus, s.z))

\* The token loop of the string case and the check after it; s is the
\* outcome of the pass before.
RECURSIVE ScanTokens(_, _)
ScanTokens(tokens, s) ==
  IF s.thrown THEN Thrown(s.z)
  ELSE IF s.i > Len(tokens)
  THEN (IF s.plus + s.minus > 0 THEN Thrown(s.z) ELSE Returned(s.z))
  ELSE ScanTokens(tokens, TokenStep(tokens, s.i, s.plus, s.minus, s.z))

\* A string case that forgets to clear the scratch record.
KeepScratch(p) == p

\* The scratch record as the string case leaves it before it tokenizes:
\* z.im = z.re = 0.
ResetScratch(p) == <<NumInt(0), NumInt(0)>>

\* The string case once a.replace(...).match(...) gave tokens: plus = 1,
\* minus = 0, then the loop.
parseTokens(z, tokens) ==
  IF tokens = <<>> THEN Thrown(z)
  ELSE ScanTokens(tokens, Step(FALSE, 1, 1, 0, z))

\* case 'string' of parse.
parseString(p, cs) ==
  parseTokens(ResetScratch(p), Tokenize(StripUnderscores(cs)))

\* An object case whose array check forgets the length.
parseObjectAnyLength(p, h, a) ==
  CASE a[1] = "reim" -> Returned(<<a[2], a[3]>>)
    [] a[1] = "ref" -> Returned(<<h[a[2]][1], h[a[2]][2]>>)
    [] a[1] \in {"absarg", "rphi"} ->
         IF ~isFinite(a[2]) /\ isFinite(a[3]) THEN ReturnedInfinity(p)
         ELSE Returned(<<JsMul(a[2], MathCos(a[3])), JsMul(a[2], MathSin(a[3]))>>)
    [] a[1] = "arr" /\ Len(a[2]) >= 1 ->
         Returned(<<a[2][1], IF Len(a[2]) >= 2 THEN a[2][2] ELSE Undef>>)
    [] OTHER -> Thrown(p)

\* case 'object' of parse; h is the heap of Complex objects.
parseObject(p, h, a) ==
  CASE a[1] = "reim" -> Returned(<<a[2], a[3]>>)
    [] a[1] = "ref" -> Returned(<<h[a[2]][1], h[a[2]][2]>>)
    [] a[1] \in {"absarg", "rphi"} ->
         IF ~isFinite(a[2]) /\ isFinite(a[3]) THEN ReturnedInfinity(p)
         ELSE Returned(<<JsMul(a[2], MathCos(a[3])), JsMul(a[2], MathSin(a[3]))>>)
    [] a[1] = "arr" /\ Len(a[2]) = 2 -> Returned(<<a[2][1], a[2][2]>>)
    [] OTHER -> Thrown(p)

\* case 'number' of parse.
parseNumber(p, a) == Returned(<<a, NumInt(0)>>)

\* parse(a, b), called with the scratch record holding p.
parse(p, h, a, b) ==
  IF a = Undef \/ a = Null THEN Returned(<<NumInt(0), NumInt(0)>>)
  ELSE IF b # Undef THEN Returned(<<a, b>>)
  ELSE CASE TypeOf(a) = "object" -> parseObject(p, h, a)
         [] TypeOf(a) = "string" -> parseString(p, a[2])
         [] TypeOf(a) = "number" -> parseNumber(p, a)
         [] OTHER -> Thrown(p)

\* ----------------------------------------------------------------- Complex
\* Complex.EPSILON = 1e-15, scaled to the modelled float format: 1/EpsilonDen,
\* a representable number well below 1.
EpsilonDen == 16

EPSILON == <<"num", 1, EpsilonDen>>

\* The named constants, in the order the module creates them.
ConstNames == <<"ZERO", "ONE", "I", "PI", "E", "INFINITY", "NAN">>

Consts == {ConstNames[k] : k \in 1..Len(ConstNames)}

\* The arguments of the constructor call that creates each named constant.
ConstArgs(c) ==
  CASE c = "ZERO" -> <<NumInt(0), NumInt(0)>>
    [] c = "ONE" -> <<NumInt(1), NumInt(0)>>
    [] c = "I" -> <<NumInt(0), NumInt(1)>>
    [] c = "PI" -> <<MathPI, NumInt(0)>>
    [] c = "E" -> <<MathE, NumInt(0)>>
    [] c = "INFINITY" -> <<PosInf, PosInf>>
    [] c = "NAN" -> <<NaN, NaN>>

\* The objects of the heap: the named constants and the objects the client
\* holds, "o1" (its value x) and "o2" (the latest result y).
UserObjs == {"o1", "o2"}

ObjIds == Consts \cup UserObjs

\* The heap entry of an object that does not exist.
Free == <<>>

\* What a call hands back.  kind: "new" (a newly constructed object holding
\* val), "const" (the existing object ref), "bool" (the boolean bool), "str"
\* (the string of the characters str) or "throw" (SyntaxError('Invalid
\* Param')); P is the scratch record after it.
OutThrow(p) ==
  [kind |-> "throw", P |-> p, val |-> Free, ref |-> "none", bool |-> FALSE,
   str |-> <<>>]

OutNew(p, v) ==
  [kind |-> "new", P |-> p, val |-> v, ref |-> "none", bool |-> FALSE,
   str |-> <<>>]

OutConst(p, c) ==
  [kind |-> "const", P |-> p, val |-> Free, ref |-> c, bool |-> FALSE,
   str |-> <<>>]

OutBool(p, b) ==
  [kind |-> "bool", P |-> p, val |-> Free, ref |-> "none", bool |-> b,
   str |-> <<>>]

OutStr(p, cs) ==
  [kind |-> "str", P |-> p, val |-> Free, ref |-> "none", bool |-> FALSE,
   str |-> cs]

\* The object parse returned, as its caller reads it: the scratch record or
\* the constant Complex.INFINITY.
Deref(r, h) == IF r.src = "P" THEN r.P ELSE h["INFINITY"]

\* The constructor after its parse returned r: this.re = z.re; this.im = z.im.
Constructed(r, h) ==
  IF r.thrown THEN OutThrow(r.P) ELSE OutNew(r.P, Deref(r, h))

\* new Complex(a, b)
NewComplex(p, h, a, b) == Constructed(parse(p, h, a, b), h)

\* new Complex(v[1], v[2])
NewPair(p, h, v) == NewComplex(p, h, v[1], v[2])

\* The classification methods on a value t = <<re, im>>.
IsNaNM(t) == isNaN(t[1]) \/ isNaN(t[2])

IsZeroM(t) == StrictEq(t[2], NumInt(0)) /\ StrictEq(t[1], NumInt(0))

IsFiniteM(t) == isFinite(t[1]) /\ isFinite(t[2])

IsInfiniteM(t) == ~IsFiniteM(t)

\* The locals add, sub, mul and div compute from the receiver t and the
\* parsed operand z.
OperandInfinite(z) == ~(isFinite(z[1]) /\ isFinite(z[2]))

ExactlyZero(t) == StrictEq(t[1], NumInt(0)) /\ StrictEq(t[2], NumInt(0))

\* add and sub once tInfin or zInfin holds.
InfinitePole(p, tInfin, zInfin) ==
  IF tInfin /\ zInfin THEN OutConst(p, "NAN") ELSE OutConst(p, "INFINITY")

\* The body of add after its parse: t the receiver, z the operand, p the
\* scratch record.
addLocals(p, h, t, z, tInfin, zInfin) ==
  IF tInfin \/ zInfin THEN InfinitePole(p, tInfin, zInfin)
  ELSE NewComplex(p, h, JsAdd(t[1], z[1]), JsAdd(t[2], z[2]))

addBody(p, h, t, z) ==
  addLocals(p, h, t, z, IsInfiniteM(t), OperandInfinite(z))

subLocals(p, h, t, z, tInfin, zInfin) ==
  IF tInfin \/ zInfin THEN InfinitePole(p, tInfin, zInfin)
  ELSE NewComplex(p, h, JsSub(t[1], z[1]), JsSub(t[2], z[2]))

subBody(p, h, t, z) ==
  subLocals(p, h, t, z, IsInfiniteM(t), OperandInfinite(z))

\* A product with the sign of b*d wrong.
mulPairSignError(t, z) ==
  <<JsAdd(JsMul(t[1], z[1]), JsMul(t[2], z[2])),
    JsAdd(JsMul(t[1], z[2]), JsMul(t[2], z[1]))>>

\* The arguments mul passes to the constructor.
mulPair(t, z) ==
  IF StrictEq(z[2], NumInt(0)) /\ StrictEq(t[2], NumInt(0))
  THEN <<JsMul(t[1], z[1]), NumInt(0)>>
  ELSE <<JsSub(JsMul(t[1], z[1]), JsMul(t[2], z[2])),
         JsAdd(JsMul(t[1], z[2]), JsMul(t[2], z[1]))>>

mulLocals(p, h, t, z, tInfin, zInfin, tIsZero, zIsZero) ==
  IF (tInfin /\ zIsZero) \/ (zInfin /\ tIsZero) THEN OutConst(p, "NAN")
  ELSE IF tInfin \/ zInfin THEN OutConst(p, "INFINITY")
  ELSE NewPair(p, h, mulPair(t, z))

mulBody(p, h, t, z) ==
  mulLocals(p, h, t, z, IsInfiniteM(t), OperandInfinite(z),
            ExactlyZero(t), ExactlyZero(z))

\* A branch |z.re| < |z.im| that adds this.re where the source subtracts it.
divSteepSignError(t, x, d) ==
  <<JsDiv(JsAdd(JsMul(t[1], x), t[2]), d),
    JsDiv(JsAdd(JsMul(t[2], x), t[1]), d)>>

\* The branch |z.re| < |z.im| of div with its locals x and t (here d).
divSteep(t, x, d) ==
  <<JsDiv(JsAdd(JsMul(t[1], x), t[2]), d),
    JsDiv(JsSub(JsMul(t[2], x), t[1]), d)>>

\* The other branch of div with its locals x and t (here d).
divFlat(t, x, d) ==
  <<JsDiv(JsAdd(t[1], JsMul(t[2], x)), d),
    JsDiv(JsSub(t[2], JsMul(t[1], x)), d)>>

divSteepX(t, z, x) == divSteep(t, x, JsAdd(JsMul(z[1], x), z[2]))

divFlatX(t, z, x) == divFlat(t, x, JsAdd(JsMul(z[2], x), z[1]))

\* The arguments div passes to the constructor.
divPair(t, z) ==
  IF StrictEq(NumInt(0), z[2])
  THEN <<JsDiv(t[1], z[1]), JsDiv(t[2], z[1])>>
  ELSE IF FLt(MathAbs(z[1]), MathAbs(z[2]))
  THEN divSteepX(t, z, JsDiv(z[1], z[2]))
  ELSE divFlatX(t, z, JsDiv(z[2], z[1]))

\* A division that raises on a zero divisor.
divLocalsRaising(p, h, t, z, tInfin, zInfin, tIsZero, zIsZero) ==
  IF zIsZero THEN OutThrow(p)
  ELSE IF tInfin /\ zInfin THEN OutConst(p, "NAN")
  ELSE IF tInfin THEN OutConst(p, "INFINITY")
  ELSE IF tIsZero \/ zInfin THEN OutConst(p, "ZERO")
  ELSE NewPair(p, h, divPair(t, z))

divLocals(p, h, t, z, tInfin, zInfin, tIsZero, zIsZero) ==
  IF (tIsZero /\ zIsZero) \/ (tInfin /\ zInfin) THEN OutConst(p, "NAN")
  ELSE IF zIsZero \/ tInfin THEN OutConst(p, "INFINITY")
  ELSE IF tIsZero \/ zInfin THEN OutConst(p, "ZERO")
  ELSE NewPair(p, h, divPair(t, z))

divBody(p, h, t, z) ==
  divLocals(p, h, t, z, IsInfiniteM(t), OperandInfinite(z),
            ExactlyZero(t), ExactlyZero(z))

\* The literal 0.5.
Half == <<"num", 1, 2>>

\* The last statements of logHypot, a and b halved.
logHypotScaled(a, b) ==
  JsAdd(JsMul(Half, MathLog(JsAdd(JsMul(a, a), JsMul(b, b)))), MathLN2)

\* logHypot with its locals _a and _b. The literal 3000 is above the range
\* of the modelled format: every finite a and b is below it.
logHypotLocals(a, b, absA, absB) ==
  IF StrictEq(a, NumInt(0)) THEN MathLog(absB)
  ELSE IF StrictEq(b, NumInt(0)) THEN MathLog(absA)
  ELSE IF JsLt(absA, NumInt(3000)) /\ JsLt(absB, NumInt(3000))
       THEN JsMul(MathLog(JsAdd(JsMul(a, a), JsMul(b, b))), Half)
  ELSE logHypotScaled(JsMul(a, Half), JsMul(b, Half))

logHypot(a, b) == logHypotLocals(a, b, MathAbs(a), MathAbs(b))

\* A part of pow that returned nothing: the statements after it run.
NoReturn(p) ==
  [kind |-> "fall", P |-> p, val |-> Free, ref |-> "none", bool |-> FALSE,
   str |-> <<>>]

\* A switch whose cases 1 and 3 are exchanged.
powSwitchExchanged(p, h, t, z, q) ==
  CASE StrictEq(q, NumInt(0)) ->
         NewComplex(p, h, MathPow(t[2], z[1]), NumInt(0))
    [] StrictEq(q, NumInt(3)) ->
         NewComplex(p, h, NumInt(0), MathPow(t[2], z[1]))
    [] StrictEq(q, NumInt(2)) ->
         NewComplex(p, h, JsNeg(MathPow(t[2], z[1])), NumInt(0))
    [] StrictEq(q, NumInt(1)) ->
         NewComplex(p, h, NumInt(0), JsNeg(MathPow(t[2], z[1])))
    [] OTHER -> NoReturn(p)

\* The switch of pow on q = (z.re % 4 + 4) % 4, for a base with re 0.
powSwitch(p, h, t, z, q) ==
  CASE StrictEq(q, NumInt(0)) ->
         NewComplex(p, h, MathPow(t[2], z[1]), NumInt(0))
    [] StrictEq(q, NumInt(1)) ->
         NewComplex(p, h, NumInt(0), MathPow(t[2], z[1]))
    [] StrictEq(q, NumInt(2)) ->
         NewComplex(p, h, JsNeg(MathPow(t[2], z[1])), NumInt(0))
    [] StrictEq(q, NumInt(3)) ->
         NewComplex(p, h, NumInt(0), JsNeg(MathPow(t[2], z[1])))
    [] OTHER -> NoReturn(p)

\* The part of pow for a real exponent.
powReal(p, h, t, z) ==
  IF ~StrictEq(z[2], NumInt(0)) THEN NoReturn(p)
  ELSE IF StrictEq(t[2], NumInt(0)) /\ JsGt(t[1], NumInt(0))
       THEN NewComplex(p, h, MathPow(t[1], z[1]), NumInt(0))
  ELSE IF StrictEq(t[1], NumInt(0))
       THEN powSwitch(p, h, t, z,
                      JsMod(JsAdd(JsMod(z[1], NumInt(4)), NumInt(4)), NumInt(4)))
  ELSE NoReturn(p)

\* The return of pow with its locals re and im.
powPolar(p, h, re, im) ==
  NewComplex(p, h, JsMul(re, MathCos(im)), JsMul(re, MathSin(im)))

\* The general formula of pow with its locals arg and loh.
powGeneral(p, h, z, arg, loh) ==
  powPolar(p, h, MathExp(JsSub(JsMul(z[1], loh), JsMul(z[2], arg))),
           JsAdd(JsMul(z[2], loh), JsMul(z[1], arg)))

\* pow after the part for a real exponent, which returned r or nothing.
powRest(p, h, t, z, tIsZero, r) ==
  IF r.kind # "fall" THEN r
  ELSE IF tIsZero /\ JsGt(z[1], NumInt(0)) THEN OutConst(p, "ZERO")
  ELSE powGeneral(p, h, z, MathAtan2(t[2], t[1]), logHypot(t[1], t[2]))

\* A pow that looks at the base before the exponent: 0^z = 0.
powLocalsBaseFirst(p, h, t, z, tIsZero, zIsZero) ==
  IF tIsZero THEN OutConst(p, "ZERO")
  ELSE IF zIsZero THEN OutConst(p, "ONE")
  ELSE powRest(p, h, t, z, tIsZero, powReal(p, h, t, z))

\* pow with its locals tIsZero and zIsZero.
powLocals(p, h, t, z, tIsZero, zIsZero) ==
  IF zIsZero THEN OutConst(p, "ONE")
  ELSE powRest(p, h, t, z, tIsZero, powReal(p, h, t, z))

powBody(p, h, t, z) == powLocals(p, h, t, z, ExactlyZero(t), ExactlyZero(z))

\* An equals that compares the components with ===.
equalsExact(p, h, t, z) ==
  OutBool(p, StrictEq(z[1], t[1]) /\ StrictEq(z[2], t[2]))

\* equals after its parse.
equalsBody(p, h, t, z) ==
  OutBool(p, /\ JsLe(MathAbs(JsSub(z[1], t[1])), EPSILON)
             /\ JsLe(MathAbs(JsSub(z[2], t[2])), EPSILON))

\* A binary operation after its parse.
BinaryBody(op, p, h, t, z) ==
  CASE op = "add" -> addBody(p, h, t, z)
    [] op = "sub" -> subBody(p, h, t, z)
    [] op = "mul" -> mulBody(p, h, t, z)
    [] op = "div" -> divBody(p, h, t, z)
    [] op = "equals" -> equalsBody(p, h, t, z)
    [] op = "pow" -> powBody(p, h, t, z)

\* A binary operation whose parse returned r.
BinaryParsed(op, h, t, r) ==
  IF r.thrown THEN OutThrow(r.P)
  ELSE BinaryBody(op, r.P, h, t, Deref(r, h))

\* A binary operation: const z = parse(a, b), then its body.
Binary(op, p, h, t, a, b) == BinaryParsed(op, h, t, parse(p, h, a, b))

\* inverse with its locals a, b and d.
inverseLocals(p, h, a, b, d) == NewComplex(p, h, JsDiv(a, d), JsDiv(JsNeg(b), d))

\* An inverse that throws for zero.
inverseRaising(p, h, t) ==
  IF IsZeroM(t) THEN OutThrow(p)
  ELSE IF IsInfiniteM(t) THEN OutConst(p, "ZERO")
  ELSE inverseLocals(p, h, t[1], t[2],
                     JsAdd(JsMul(t[1], t[1]), JsMul(t[2], t[2])))

\* inverse, neg, conjugate and clone on the receiver t.
inverse(p, h, t) ==
  IF IsZeroM(t) THEN OutConst(p, "INFINITY")
  ELSE IF IsInfiniteM(t) THEN OutConst(p, "ZERO")
  ELSE inverseLocals(p, h, t[1], t[2],
                     JsAdd(JsMul(t[1], t[1]), JsMul(t[2], t[2])))

\* A neg that leaves the imaginary part as it is.
negRealOnly(p, h, t) == NewComplex(p, h, JsNeg(t[1]), t[2])

neg(p, h, t) == NewComplex(p, h, JsNeg(t[1]), JsNeg(t[2]))

conjugate(p, h, t) == NewComplex(p, h, t[1], JsNeg(t[2]))

clone(p, h, t) == NewComplex(p, h, t[1], t[2])

\* ceil and floor once places is Math.pow(10, places || 0).
ceilLocals(p, h, t, places) ==
  NewComplex(p, h, JsDiv(MathCeil(JsMul(t[1], places)), places),
             JsDiv(MathCeil(JsMul(t[2], places)), places))

floorLocals(p, h, t, places) ==
  NewComplex(p, h, JsDiv(MathFloor(JsMul(t[1], places)), places),
             JsDiv(MathFloor(JsMul(t[2], places)), places))

ceil(p, h, t, places) ==
  ceilLocals(p, h, t, MathPow(NumInt(10), JsOr(places, NumInt(0))))

floor(p, h, t, places) ==
  floorLocals(p, h, t, MathPow(NumInt(10), JsOr(places, NumInt(0))))

\* ceil and floor on the receiver t.
Rounding(op, p, h, t, places) ==
  CASE op = "ceil" -> ceil(p, h, t, places)
    [] op = "floor" -> floor(p, h, t, places)

\* "" + v
Chars(v) == ToStringPrim(ToPrimitive(v))

\* A component of toString after if (Math.abs(a) < EPSILON) a = 0.
toStringSnap(v) == IF JsLt(MathAbs(v), EPSILON) THEN NumInt(0) ELSE v

\* An end of toString that always writes the imaginary magnitude.
toStringEndAlways(p, ret, b) == OutStr(p, ret \o Chars(b) \o <<"i">>)

\* The end of toString: ret as built so far, b the absolute imaginary part.
toStringEnd(p, ret, b) ==
  OutStr(p, ret \o (IF ~StrictEq(NumInt(1), b) THEN Chars(b) ELSE <<>>)
              \o <<"i">>)

\* toString of a value that is not real.
toStringSigned(p, a, b) ==
  IF ~StrictEq(a, NumInt(0))
  THEN IF JsLt(b, NumInt(0))
       THEN toStringEnd(p, Chars(a) \o <<" ", "-", " ">>, JsNeg(b))
       ELSE toStringEnd(p, Chars(a) \o <<" ", "+", " ">>, b)
  ELSE IF JsLt(b, NumInt(0)) THEN toStringEnd(p, <<"-">>, JsNeg(b))
  ELSE toStringEnd(p, <<>>, b)

\* toString once a and b are snapped.
toStringLocals(p, a, b) ==
  IF StrictEq(b, NumInt(0)) THEN OutStr(p, Chars(a))
  ELSE toStringSigned(p, a, b)

\* A toString that tests isInfinite before isNaN.
toStringInfiniteFirst(p, h, t) ==
  IF IsInfiniteM(t) THEN OutStr(p, InfinityChars)
  ELSE IF IsNaNM(t) THEN OutStr(p, <<"N", "a", "N">>)
  ELSE toStringLocals(p, toStringSnap(t[1]), toStringSnap(t[2]))

toString(p, h, t) ==
  IF IsNaNM(t) THEN OutStr(p, <<"N", "a", "N">>)
  ELSE IF IsInfiniteM(t) THEN OutStr(p, InfinityChars)
  ELSE toStringLocals(p, toStringSnap(t[1]), toStringSnap(t[2]))

Unary(op, p, h, t) ==
  CASE op = "inverse" -> inverse(p, h, t)
    [] op = "neg" -> neg(p, h, t)
    [] op = "conjugate" -> conjugate(p, h, t)
    [] op = "clone" -> clone(p, h, t)
    [] op = "isNaN" -> OutBool(p, IsNaNM(t))
    [] op = "isZero" -> OutBool(p, IsZeroM(t))
    [] op = "isFinite" -> OutBool(p, IsFiniteM(t))
    [] op = "isInfinite" -> OutBool(p, IsInfiniteM(t))
    [] op = "toString" -> toString(p, h, t)

\* ----------------------------------------------------------------- inputs
\* Number.MAX_VALUE and the least positive number of the modelled format.
Big == NumInt(MaxFloat)

Tiny == <<"num", 1, MaxFloat>>

\* The numbers arithmetic is checked on.
Nums ==
  {NumInt(k) : k \in (-MaxInt)..MaxInt} \cup {Big, Tiny, PosInf, NegInf, NaN}

\* The argument lists <<a, b>> of a call; b = Undef is a call with one
\* argument, a = b = Undef a call with none.
\* Two numbers.
NumArgs == Nums \X Nums

\* The strings "1+i", "-2i", "i", "i2", "f", "1f", "1 2", "2i3", "1 i", "1+",
\* "+", "" and " ".
ShapeStrings ==
  {Str(<<"1", "+", "i">>), Str(<<"-", "2", "i">>), Str(<<"i">>),
   Str(<<"i", "2">>), Str(<<"f">>), Str(<<"1", "f">>),
   Str(<<"1", " ", "2">>), Str(<<"2", "i", "3">>), Str(<<"1", " ", "i">>),
   Str(<<"1", "+">>), Str(<<"+">>), Str(<<>>), Str(<<" ">>)}

\* Objects: {re, im}, {abs, arg}, {r, phi}, {r, i}, arrays and {}.
ShapeObjects ==
  {<<"reim", NumInt(1), NumInt(2)>>, <<"reim", Str(<<"1">>), Undef>>,
   <<"reim", Null, NumInt(1)>>,
   <<"absarg", NumInt(1), NumInt(0)>>, <<"absarg", PosInf, NumInt(0)>>,
   <<"absarg", NaN, NumInt(0)>>, <<"rphi", NumInt(2), NumInt(0)>>,
   <<"rphi", NegInf, NumInt(0)>>, <<"rphi", PosInf, NaN>>,
   <<"ri", NumInt(1), NumInt(2)>>,
   <<"arr", <<NumInt(1), NumInt(2)>>>>, <<"arr", <<NumInt(1)>>>>,
   <<"arr", <<Str(<<"1">>), Null>>>>, <<"arr", <<>>>>,
   <<"arr", <<NumInt(1), NumInt(2), NumInt(0)>>>>,
   <<"obj">>, <<"ref", "I">>, <<"ref", "INFINITY">>}

\* The numbers passed where the shape, not the value, is what matters.
ShapeNums == {NumInt(0), NumInt(1), NumInt(-MaxInt), PosInf, NaN}

\* Every shape of argument list the Normalizer tells apart.
ShapeArgs ==
  {<<Undef, Undef>>, <<Null, Undef>>, <<Null, NumInt(1)>>,
   <<<<"bool", TRUE>>, Undef>>}
  \cup {<<n, Undef>> : n \in ShapeNums}
  \cup {<<NumInt(1), n>> : n \in ShapeNums}
  \cup {<<Str(<<"1">>), Str(<<"2">>)>>, <<NumInt(1), Null>>,
        <<<<"obj">>, NumInt(1)>>, <<<<"bool", TRUE>>, NumInt(1)>>}
  \cup {<<o, Undef>> : o \in ShapeObjects \cup ShapeStrings}

\* The argument lists of the client that calls on and on: two numbers, the
\* strings "1+i" and "1f" (which throws after it wrote the scratch record),
\* {} (which throws before it writes) and {abs: Infinity, arg: 0} (for which
\* parse returns Complex.INFINITY and writes nothing).
SeqArgs ==
  {<<NumInt(1), NumInt(-MaxInt)>>,
   <<Str(<<"1", "+", "i">>), Undef>>, <<Str(<<"1", "f">>), Undef>>,
   <<<<"obj">>, Undef>>, <<<<"absarg", PosInf, NumInt(0)>>, Undef>>}

\* ------------------------------------------------------------------ state
VARIABLES
  heap,   \* the Complex objects: heap[o] = <<re, im>>, or Free
  P,      \* the scratch record of parse: <<re, im>>
  x,      \* the object the client calls operations on ("none": not yet any)
  y,      \* the object the latest call returned ("none": it returned none)
  last,   \* the latest call: its operation, receiver, arguments and outcome
  thr     \* the calls in progress on concurrent threads (see Threads)

vars == <<heap, P, x, y, last, thr>>

\* Loading the module: P = {re: 0, im: 0}, then Complex['ZERO'] = new
\* Complex(0, 0) and so on for each named constant, in order.
RECURSIVE LoadConstants(_, _, _)
\* Complex[c] = out, then the constants after c = ConstNames[k].
LoadNext(k, h, out) ==
  LoadConstants(k + 1, out.P, [h EXCEPT ![ConstNames[k]] = out.val])

LoadConstants(k, p, h) ==
  IF k > Len(ConstNames) THEN [P |-> p, heap |-> h]
  ELSE LoadNext(k, h, NewPair(p, h, ConstArgs(ConstNames[k])))

Loaded ==
  LoadConstants(1, <<NumInt(0), NumInt(0)>>, [o \in ObjIds |-> Free])

\* Two threads, each of which makes one call of add.
Threads == {1, 2}

\* A thread that has not called yet.
Idle ==
  [pc |-> "idle", mode |-> "none", a |-> Undef, z |-> <<Undef, Undef>>,
   zInfin |-> FALSE, re |-> Undef, im |-> Undef, res |-> Free]

NoCall(what) ==
  [op |-> what, this |-> Free, a |-> Undef, b |-> Undef,
   kind |-> "none", ret |-> "none", bool |-> FALSE, str |-> <<>>]

Init ==
  /\ heap = Loaded.heap
  /\ P = Loaded.P
  /\ x = "none"
  /\ y = "none"
  /\ last = NoCall("load")
  /\ thr = [t \in Threads |-> Idle]

\* A constructor that also writes the fields of the client's object.
StoreOverReceiver(h, o, v) == [h EXCEPT ![o] = v, !["o1"] = v]

\* The heap once the constructor has written the fields of the new object o.
Store(h, o, v) == [h EXCEPT ![o] = v]

\* The heap once the object the previous call returned is garbage.
Drop(h) == [h EXCEPT !["o2"] = Free]

\* What new Complex(a, b) leaves behind: the client keeps the new object as
\* x; an exception leaves x as it is.
Constructs(a, b, out) ==
  /\ P' = out.P
  /\ IF out.kind = "throw"
     THEN UNCHANGED <<heap, x, y>>
     ELSE heap' = Store(Drop(heap), "o1", out.val) /\ x' = "o1" /\ y' = "none"
  /\ last' = [op |-> "new", this |-> Free, a |-> a, b |-> b,
              kind |-> out.kind,
              ret |-> IF out.kind = "throw" THEN "none" ELSE "o1",
              bool |-> FALSE,
              str |-> <<>>]
  /\ UNCHANGED thr

\* The client calls new Complex(a, b).
Construct(a, b) == Constructs(a, b, NewComplex(P, heap, a, b))

\* What a call on x leaves behind: a new object is "o2", a returned constant
\* is held by reference, a boolean, a string or an exception returns no
\* object.
Return(op, a, b, out) ==
  /\ P' = out.P
  /\ x' = x
  /\ CASE out.kind = "new" -> heap' = Store(heap, "o2", out.val) /\ y' = "o2"
       [] out.kind = "const" -> heap' = Drop(heap) /\ y' = out.ref
       [] out.kind \in {"bool", "str"} -> heap' = Drop(heap) /\ y' = "none"
       [] OTHER -> UNCHANGED <<heap, y>>
  /\ last' = [op |-> op, this |-> heap[x], a |-> a, b |-> b,
              kind |-> out.kind,
              ret |-> CASE out.kind = "new" -> "o2"
                        [] out.kind = "const" -> out.ref
                        [] OTHER -> "none",
              bool |-> out.bool,
              str |-> out.str]
  /\ UNCHANGED thr

\* The client calls x.op(a, b).
CallBinary(op, a, b) ==
  /\ x # "none"
  /\ Return(op, a, b, Binary(op, P, heap, heap[x], a, b))

\* The client calls x.op().
CallUnary(op) ==
  /\ x # "none"
  /\ Return(op, Undef, Undef, Unary(op, P, heap, heap[x]))

\* The client calls x.op(places).
CallRounding(op, places) ==
  /\ x # "none"
  /\ Return(op, places, Undef, Rounding(op, P, heap, heap[x], places))

\* The client takes the named constant c as x.
Use(c) ==
  /\ x' = c
  /\ y' = "none"
  /\ heap' = [heap EXCEPT !["o1"] = Free, !["o2"] = Free]
  /\ last' = NoCall("use")
  /\ UNCHANGED <<P, thr>>

BinaryOps == {"add", "sub", "mul", "div", "equals"}

UnaryOps == {"inverse", "neg", "conjugate", "clone"}

\* The classification methods.
ClassOps == {"isNaN", "isZero", "isFinite", "isInfinite"}

\* A reference to the client's own object, when it has one.
OwnRef == {<<<<"ref", r>>, Undef>> : r \in {x} \cap {"o1"}}

\* ---------------------------------------------------------- specifications
\* The client that calls on and on.
Next ==
  \/ \E ab \in SeqArgs \cup OwnRef : Construct(ab[1], ab[2])
  \/ \E op \in BinaryOps, ab \in SeqArgs \cup OwnRef : CallBinary(op, ab[1], ab[2])
  \/ \E op \in UnaryOps : CallUnary(op)
  \/ \E c \in Consts : Use(c)

Spec == Init /\ [][Next]_vars

\* The client that constructs one value from an argument list of any shape
\* and calls one operation on it with an argument list of any shape.
NextShapes ==
  \/ /\ last.op = "load"
     /\ \E ab \in ShapeArgs : Construct(ab[1], ab[2])
  \/ /\ last.op = "new"
     /\ last.kind = "new"
     /\ \E op \in BinaryOps, ab \in ShapeArgs : CallBinary(op, ab[1], ab[2])
  \/ /\ last.op = "new"
     /\ last.kind = "new"
     /\ \E op \in UnaryOps : CallUnary(op)

SpecShapes == Init /\ [][NextShapes]_vars

\* The client that constructs one value from two numbers and calls one
\* operation on it: an arithmetic one or equals with two numbers, inverse,
\* or a classification method.
ArithOps == {"add", "sub", "mul", "div"}

NextArith ==
  \/ /\ last.op = "load"
     /\ \E ab \in NumArgs : Construct(ab[1], ab[2])
  \/ /\ last.op = "new"
     /\ \E op \in ArithOps, ab \in NumArgs : CallBinary(op, ab[1], ab[2])
  \/ /\ last.op = "new"
     /\ CallUnary("inverse")
  \/ /\ last.op = "new"
     /\ \E op \in ClassOps : CallUnary(op)
  \/ /\ last.op = "new"
     /\ \E ab \in NumArgs : CallBinary("equals", ab[1], ab[2])

SpecArith == Init /\ [][NextArith]_vars

\* The exponents pow is called with: zero in each of its shapes, integers, a
\* fraction, the non-finite numbers, complex exponents, the text "i" and a
\* text that throws.
PowArgs ==
  {<<NumInt(0), Undef>>, <<Str(<<"0">>), Undef>>, <<<<"ref", "ZERO">>, Undef>>,
   <<NumInt(0), NumInt(0)>>}
  \cup {<<NumInt(k), Undef>> : k \in (-(MaxInt + 5))..(MaxInt + 5)}
  \cup {<<Half, Undef>>, <<PosInf, Undef>>, <<NaN, Undef>>,
        <<NumInt(1), NumInt(1)>>, <<NumInt(0), NumInt(-1)>>,
        <<Str(<<"i">>), Undef>>, <<Str(<<"f">>), Undef>>}

\* The client that constructs one value from two numbers and raises it to
\* one power.
NextPow ==
  \/ /\ last.op = "load"
     /\ \E ab \in NumArgs : Construct(ab[1], ab[2])
  \/ /\ last.op = "new"
     /\ \E ab \in PowArgs : CallBinary("pow", ab[1], ab[2])

SpecPow == Init /\ [][NextPow]_vars

\* The numbers toString is checked on: those of arithmetic, fractions of
\* either sign, one of them with more digits than a string shows, and the
\* numbers of magnitude EPSILON and below it.
Third == <<"num", 1, 3>>

TextNums ==
  Nums \cup {Half, FNeg(Half), FNeg(Tiny), EPSILON, FNeg(EPSILON), FNeg(Big),
           NumInt(9), Third}

\* The client that constructs a value from two numbers and calls toString on
\* it, and then again and again constructs a value from the string it got
\* and calls toString on that.
NextText ==
  \/ /\ last.op = "load"
     /\ \E a, b \in TextNums : Construct(a, b)
  \/ /\ last.op = "new"
     /\ CallUnary("toString")
  \/ /\ last.op = "toString"
     /\ Construct(Str(last.str), Undef)

SpecText == Init /\ [][NextText]_vars

\* The client that constructs a value from two numbers and calls floor or
\* ceil on it, with no argument or with the places 0 or 1.
RoundOps == {"floor", "ceil"}

Places == {Undef, NumInt(0), NumInt(1)}

NextRound ==
  \/ /\ last.op = "load"
     /\ \E a, b \in TextNums : Construct(a, b)
  \/ /\ last.op = "new"
     /\ \E op \in RoundOps, places \in Places : CallRounding(op, places)

SpecRound == Init /\ [][NextRound]_vars

\* The strings of up to MaxLen characters out of a digit, i, the signs, and
\* space, tab and newline.
MaxLen == 4

GrammarChars == {"2", "i", "+", "-", " ", "\t", "\n"}

GrammarStrings == UNION {[1..n -> GrammarChars] : n \in 0..MaxLen}

\* The client that constructs one value from one string.
NextGrammar ==
  /\ last.op = "load"
  /\ \E cs \in GrammarStrings : Construct(Str(cs), Undef)

SpecGrammar == Init /\ [][NextGrammar]_vars

\* The client that constructs z from two numbers, calls neg or inverse on it
\* and then adds the object that call returned to z or multiplies z by it:
\* z.add(z.neg()), z.mul(z.inverse()).
ChainFirst == {"neg", "inverse"}

ChainThen == {"add", "mul"}

NextChain ==
  \/ /\ last.op = "load"
     /\ \E ab \in NumArgs : Construct(ab[1], ab[2])
  \/ /\ last.op = "new"
     /\ \E op \in ChainFirst : CallUnary(op)
  \/ /\ last.op \in ChainFirst
     /\ \E op \in ChainThen : CallBinary(op, <<"ref", y>>, Undef)

SpecChain == Init /\ [][NextChain]_vars

\* The fields re and im of a Complex object are ordinary writable properties:
\* the client writes v to the field f (1: re, 2: im) of the object the latest
\* call returned.
ClientWrite(f, v) ==
  /\ y # "none"
  /\ heap' = [heap EXCEPT ![y][f] = v]
  /\ last' = NoCall("write")
  /\ UNCHANGED <<P, x, y, thr>>

\* The argument lists of the client that writes to what it was returned.
ClientArgs == {<<NumInt(0), Undef>>, <<NumInt(1), Undef>>, <<PosInf, Undef>>}

\* The client that writes to results between its calls. It writes once (the
\* constants hold what they were loaded with until then).
NextClient ==
  \/ \E ab \in ClientArgs : Construct(ab[1], ab[2])
  \/ \E op \in ArithOps, ab \in ClientArgs : CallBinary(op, ab[1], ab[2])
  \/ CallUnary("inverse")
  \/ /\ \A c \in Consts : heap[c] = Loaded.heap[c]
     /\ \E f \in 1..2 : ClientWrite(f, NumInt(MaxInt))

SpecClient == Init /\ [][NextClient]_vars

\* ------------------------------------------------------------ concurrency
\* Two threads call add with a number, each on its own receiver, with no
\* synchronization: each read and each write of a field of the scratch
\* record is a step of its own. In mode "shared" const z = P, as in the
\* source; in mode "local" each call of parse has a pair of its own.
\* The receiver of thread t's call.
Recv(t) == IF t = 1 THEN "ONE" ELSE "I"

\* The operands the threads pass.
ConcNums == {NumInt(1), NumInt(MaxInt), PosInf}

\* The record parse writes and its caller reads in thread t.
Zof(t) == IF thr[t].mode = "local" THEN thr[t].z ELSE P

\* Thread t goes on as nt, having written v to the record of its parse.
SetZ(t, v, nt) ==
  /\ IF thr[t].mode = "local"
     THEN thr' = [thr EXCEPT ![t] = [nt EXCEPT !.z = v]] /\ UNCHANGED P
     ELSE thr' = [thr EXCEPT ![t] = nt] /\ P' = v
  /\ UNCHANGED <<heap, x, y, last>>

\* Thread t goes on as nt, having written nothing.
Go(t, nt) ==
  /\ thr' = [thr EXCEPT ![t] = nt]
  /\ UNCHANGED <<heap, P, x, y, last>>

\* Thread t calls Recv(t).add(a); every call of one run uses the same mode.
Begin(t, m, a) ==
  /\ thr[t].pc = "idle"
  /\ \A u \in Threads : thr[u].pc # "idle" => thr[u].mode = m
  /\ Go(t, [thr[t] EXCEPT !.pc = "parseIm", !.mode = m, !.a = a])

\* case 'number' of parse: z['im'] = 0.
ParseWriteIm(t) ==
  /\ thr[t].pc = "parseIm"
  /\ SetZ(t, <<Zof(t)[1], NumInt(0)>>, [thr[t] EXCEPT !.pc = "parseRe"])

\* A number case that forgets z['re'] = a.
ParseSkipRe(t) ==
  /\ thr[t].pc = "parseRe"
  /\ Go(t, [thr[t] EXCEPT !.pc = "infin"])

\* case 'number' of parse: z['re'] = a.
ParseWriteRe(t) ==
  /\ thr[t].pc = "parseRe"
  /\ SetZ(t, <<thr[t].a, Zof(t)[2]>>, [thr[t] EXCEPT !.pc = "infin"])

\* add: tInfin and zInfin, and the return of a constant.
ReadInfin(t) ==
  /\ thr[t].pc = "infin"
  /\ LET tInfin == IsInfiniteM(heap[Recv(t)])
         zInfin == OperandInfinite(Zof(t))
     IN  IF tInfin \/ zInfin
         THEN Go(t, [thr[t] EXCEPT !.pc = "done", !.zInfin = zInfin,
                       !.res = IF tInfin /\ zInfin THEN heap["NAN"]
                               ELSE heap["INFINITY"]])
         ELSE Go(t, [thr[t] EXCEPT !.pc = "sumRe", !.zInfin = zInfin])

\* add: the argument this['re'] + z['re'].
SumRe(t) ==
  /\ thr[t].pc = "sumRe"
  /\ Go(t, [thr[t] EXCEPT !.pc = "sumIm",
                          !.re = JsAdd(heap[Recv(t)][1], Zof(t)[1])])

\* add: the argument this['im'] + z['im'].
SumIm(t) ==
  /\ thr[t].pc = "sumIm"
  /\ Go(t, [thr[t] EXCEPT !.pc = "newRe",
                          !.im = JsAdd(heap[Recv(t)][2], Zof(t)[2])])

\* new Complex(a, b), parse: z['re'] = a.
NewWriteRe(t) ==
  /\ thr[t].pc = "newRe"
  /\ SetZ(t, <<thr[t].re, Zof(t)[2]>>, [thr[t] EXCEPT !.pc = "newIm"])

\* new Complex(a, b), parse: z['im'] = b.
NewWriteIm(t) ==
  /\ thr[t].pc = "newIm"
  /\ SetZ(t, <<Zof(t)[1], thr[t].im>>, [thr[t] EXCEPT !.pc = "thisRe"])

\* new Complex(a, b): this['re'] = z['re'].
ThisRe(t) ==
  /\ thr[t].pc = "thisRe"
  /\ Go(t, [thr[t] EXCEPT !.pc = "thisIm", !.res = <<Zof(t)[1], Undef>>])

\* new Complex(a, b): this['im'] = z['im'].
ThisIm(t) ==
  /\ thr[t].pc = "thisIm"
  /\ Go(t, [thr[t] EXCEPT !.pc = "done", !.res = <<thr[t].res[1], Zof(t)[2]>>])

Modes == {"shared", "local"}

NextConc ==
  \/ \E t \in Threads, m \in Modes, a \in ConcNums : Begin(t, m, a)
  \/ \E t \in Threads : ParseWriteIm(t)
  \/ \E t \in Threads : ParseWriteRe(t)
  \/ \E t \in Threads : ReadInfin(t)
  \/ \E t \in Threads : SumRe(t)
  \/ \E t \in Threads : SumIm(t)
  \/ \E t \in Threads : NewWriteRe(t)
  \/ \E t \in Threads : NewWriteIm(t)
  \/ \E t \in Threads : ThisRe(t)
  \/ \E t \in Threads : ThisIm(t)

SpecConc == Init /\ [][NextConc]_vars

\* ------------------------------------------------ one call, step by step
\* A call this.op(a, b) of one thread, at the grain of the reads and writes
\* of the scratch record P: const z = parse(a, b) writes P, the statements
\* of the operation read z, the arguments of new Complex(...) are evaluated
\* from z in order, the constructor's parse writes z.re and z.im, and the
\* constructor reads them back into this.re and this.im.
StepOps == {"add", "sub", "mul", "div", "pow", "equals"}

StepNums == {NumInt(0), NumInt(1), NumInt(-MaxInt), Half, PosInf, NaN}

\* Two numbers, one number, a string, a string that is rejected, and the
\* polar object that makes parse return Complex.INFINITY instead of P.
StepArgs ==
  (StepNums \X StepNums)
  \cup {<<n, Undef>> : n \in StepNums}
  \cup {<<Str(<<"1", "+", "i">>), Undef>>, <<Str(<<"f">>), Undef>>,
        <<<<"ref", "I">>, Undef>>,
        <<<<"absarg", PosInf, NumInt(0)>>, Undef>>}

\* The statement that follows the statement at pc when the call goes on to
\* construct its result: parse, the tests and locals of the operation, the
\* first and the second argument of new Complex(...), z.re = a and z.im = b
\* of the constructor's parse, this.re = z.re and this.im = z.im.
NextPcEager(pc) ==
  CASE pc = "parse" -> "locals"
    [] pc = "locals" -> "argRe"
    [] pc = "argRe" -> "newRe"
    [] pc = "newRe" -> "argIm"
    [] pc = "argIm" -> "newIm"
    [] pc = "newIm" -> "this"
    [] pc = "this" -> "done"

NextPc(pc) ==
  CASE pc = "parse" -> "locals"
    [] pc = "locals" -> "argRe"
    [] pc = "argRe" -> "argIm"
    [] pc = "argIm" -> "newRe"
    [] pc = "newRe" -> "newIm"
    [] pc = "newIm" -> "this"
    [] pc = "this" -> "done"

\* The activation record of the call; wr counts the parses of the call that
\* have written P so far, seen collects the value of wr at each read of the
\* operand z, seenNew at each read of the constructor's z.
StepCall(op, c, a, b) ==
  [pc |-> "parse", mode |-> "shared", op |-> op, recv |-> c, a |-> a,
   b |-> b, src |-> "P", before |-> P, wr |-> 0, seen |-> {}, seenNew |-> {},
   re |-> Undef, im |-> Undef, out |-> Free]

\* The operand as the operation reads it now: P, or Complex.INFINITY when
\* parse returned that object.
StepZ == IF thr[1].src = "P" THEN P ELSE heap["INFINITY"]

\* The operation on the operand as it is now.
StepBody == BinaryBody(thr[1].op, P, heap, heap[thr[1].recv], StepZ)

\* Reading the operand with the record r: the read is one of P unless parse
\* returned Complex.INFINITY.
StepRead(r) ==
  IF r.src = "P" THEN [r EXCEPT !.seen = @ \cup {r.wr}] ELSE r

\* Complex[c].op(a, b) is called.
StepBegin(op, c, a, b) ==
  /\ thr[1].pc = "idle"
  /\ \A u \in Threads : thr[u].pc = "idle"
  /\ Go(1, StepCall(op, c, a, b))

\* const z = parse(a, b): throws, or writes P, or returns Complex.INFINITY.
StepParse ==
  /\ thr[1].pc = "parse"
  /\ thr[1].mode = "shared"
  /\ LET r == parse(P, heap, thr[1].a, thr[1].b)
     IN IF r.thrown
        THEN SetZ(1, r.P, [thr[1] EXCEPT !.pc = "done",
                                         !.out = OutThrow(r.P)])
        ELSE SetZ(1, r.P, [thr[1] EXCEPT !.pc = NextPc("parse"),
                                         !.src = r.src,
                                         !.wr = IF r.src = "P" THEN 1 ELSE 0])

\* The tests and locals of the operation, up to its return statement: a
\* return of a constant or a boolean ends the call.
StepLocals ==
  /\ thr[1].pc = "locals"
  /\ thr[1].mode = "shared"
  /\ IF StepBody.kind = "new"
     THEN Go(1, StepRead([thr[1] EXCEPT !.pc = NextPc("locals")]))
     ELSE Go(1, StepRead([thr[1] EXCEPT !.pc = "done",
                                        !.out = StepBody]))

\* The k-th argument of new Complex(...), evaluated from z as it is now.
StepArg(k) == IF StepBody.kind = "new" THEN StepBody.val[k] ELSE NaN

StepArgRe ==
  /\ thr[1].pc = "argRe"
  /\ thr[1].mode = "shared"
  /\ Go(1, StepRead([thr[1] EXCEPT !.pc = NextPc("argRe"), !.re = StepArg(1)]))

StepArgIm ==
  /\ thr[1].pc = "argIm"
  /\ thr[1].mode = "shared"
  /\ Go(1, StepRead([thr[1] EXCEPT !.pc = NextPc("argIm"), !.im = StepArg(2)]))

\* The constructor's parse(a, b) with two numbers: z.re = a
StepNewRe ==
  /\ thr[1].pc = "newRe"
  /\ thr[1].mode = "shared"
  /\ SetZ(1, <<thr[1].re, P[2]>>,
          [thr[1] EXCEPT !.pc = NextPc("newRe"), !.wr = 2])

\* z.im = b
StepNewIm ==
  /\ thr[1].pc = "newIm"
  /\ thr[1].mode = "shared"
  /\ SetZ(1, <<P[1], thr[1].im>>,
          [thr[1] EXCEPT !.pc = NextPc("newIm"), !.wr = 2])

\* this.re = z.re; this.im = z.im, and the operation returns the object.
StepThis ==
  /\ thr[1].pc = "this"
  /\ thr[1].mode = "shared"
  /\ Go(1, [thr[1] EXCEPT !.pc = NextPc("this"),
                          !.seenNew = @ \cup {thr[1].wr},
                          !.out = OutNew(P, P)])

NextSteps ==
  \/ \E op \in StepOps, c \in Consts, args \in StepArgs :
       StepBegin(op, c, args[1], args[2])
  \/ StepParse
  \/ StepLocals
  \/ StepArgRe
  \/ StepArgIm
  \/ StepNewRe
  \/ StepNewIm
  \/ StepThis

SpecSteps == Init /\ [][NextSteps]_vars

\* ------------------------------------------------------------- properties
\* The vocabulary of the properties. The operations a client calls on a value.
CallOps == BinaryOps \cup UnaryOps

\* What a call returned, as its caller sees it in the heap h: the components
\* of the returned object.
Value(out, h) ==
  CASE out.kind = "new" -> out.val
    [] out.kind = "const" -> h[out.ref]
    [] OTHER -> Free

\* Everything the caller observes of a call: how it ended, the components
\* of the value and the boolean or string it returned.
Observed(out, h) == <<out.kind, Value(out, h), out.bool, out.str>>

\* The call op(a, b) on the receiver t (the constructor when op = "new"),
\* made with the scratch record holding p.
Call(op, p, h, t, a, b) ==
  CASE op = "new" -> NewComplex(p, h, a, b)
    [] op \in BinaryOps -> Binary(op, p, h, t, a, b)
    [] op \in UnaryOps -> Unary(op, p, h, t)

\* The classes of a value with numeric components: NaN when a component is
\* NaN, infinite when it is not NaN and a component is infinite, else finite.
ClassNaN(t) == NumIsNaN(t[1]) \/ NumIsNaN(t[2])

ClassInfinite(t) == ~ClassNaN(t) /\ (NumIsInf(t[1]) \/ NumIsInf(t[2]))

ClassFinite(t) == NumIsFinite(t[1]) /\ NumIsFinite(t[2])

ClassZero(t) == t = <<NumInt(0), NumInt(0)>>

\* The operand of the latest call, which passed two numbers.
Operand == <<last.a, last.b>>

\* The latest call returned the named constant c.
ReturnedConst(c) == last.kind = "const" /\ last.ret = c

\* The latest call returned a new object with the components v.
ReturnedNew(v) == last.kind = "new" /\ heap[last.ret] = v

\* C1: after any sequence of constructor calls and operations, the re and im
\* of every Complex value are of numeric type: a component supplied as a
\* non-number is coerced to a number and never stored raw.
C1_NumericComponents ==
  \A o \in ObjIds :
    heap[o] # Free =>
      TypeOf(heap[o][1]) = "number" /\ TypeOf(heap[o][2]) = "number"

\* The token classes of the text grammar.
IsSignToken(c) == c = <<"+">> \/ c = <<"-">>

IsWhiteToken(c) == c = <<" ">> \/ c = <<"\t">> \/ c = <<"\n">>

IsImagToken(c) == c = <<"i">> \/ c = <<"I">>

IsNumberToken(c) ==
  ~IsSignToken(c) /\ ~IsWhiteToken(c) /\ ~IsImagToken(c) /\ ~isNaN(Str(c))

\* The number of tokens the term at token k takes: an i and the number (or
\* tab) right after it, a number and the i right after it, else one.
TermWidth(toks, k) ==
  IF k + 1 > Len(toks) THEN 1
  ELSE IF IsImagToken(toks[k])
  THEN (IF toks[k + 1] # <<" ">> /\ ~isNaN(Str(toks[k + 1])) THEN 2 ELSE 1)
  ELSE (IF IsImagToken(toks[k + 1]) THEN 2 ELSE 1)

\* The tokens from k on follow the grammar: every term has a sign before it
\* (signed: one stands since the term before; the first term needs none) and
\* no sign is left over at the end.
RECURSIVE TermsFollow(_, _, _)
TermsFollow(toks, k, signed) ==
  IF k > Len(toks) THEN ~signed
  ELSE IF IsWhiteToken(toks[k]) \/ IsSignToken(toks[k])
  THEN TermsFollow(toks, k + 1, signed \/ IsSignToken(toks[k]))
  ELSE IF ~signed \/ ~(IsImagToken(toks[k]) \/ IsNumberToken(toks[k]))
  THEN FALSE
  ELSE TermsFollow(toks, k + TermWidth(toks, k), FALSE)

\* A text the grammar accepts: at least one term, each term signed.
WellFormedText(cs) ==
  TermsFollow(Tokenize(StripUnderscores(cs)), 1, TRUE)

\* An object of a recognized shape: the keys re and im (a Complex object has
\* them), abs and arg, r and phi, or a length of 2.
RecognizedObject(a) ==
  \/ a[1] \in {"reim", "ref", "absarg", "rphi"}
  \/ a[1] = "arr" /\ Len(a[2]) = 2

\* The argument lists that raise: a single argument, not null or undefined,
\* that is no number, string or object, an object of no recognized shape, or
\* a text the grammar rejects.
Malformed(a, b) ==
  /\ a # Undef
  /\ a # Null
  /\ b = Undef
  /\ \/ TypeOf(a) \notin {"number", "string", "object"}
     \/ TypeOf(a) = "object" /\ ~RecognizedObject(a)
     \/ TypeOf(a) = "string" /\ ~WellFormedText(a[2])

\* A text with no token, or with a token that is not whitespace, a sign,
\* i/I or a number.
HasBadToken(toks) ==
  \/ toks = <<>>
  \/ \E k \in 1..Len(toks) :
       ~(IsWhiteToken(toks[k]) \/ IsSignToken(toks[k])
         \/ IsImagToken(toks[k]) \/ IsNumberToken(toks[k]))

\* An object with one of the key pairs, or a sequence of exactly two
\* numeric elements.
RecognizedNumericObject(a) ==
  \/ a[1] \in {"reim", "ref", "absarg", "rphi"}
  \/ /\ a[1] = "arr"
     /\ Len(a[2]) = 2
     /\ TypeOf(a[2][1]) = "number"
     /\ TypeOf(a[2][2]) = "number"

\* The unrecognized shapes as C2 states them.
Unrecognized(a, b) ==
  /\ a # Undef
  /\ a # Null
  /\ b = Undef
  /\ \/ TypeOf(a) \notin {"number", "string", "object"}
     \/ TypeOf(a) = "object" /\ ~RecognizedNumericObject(a)
     \/ TypeOf(a) = "string" /\ HasBadToken(Tokenize(StripUnderscores(a[2])))

\* The latest call was one that parses an argument list: the constructor or
\* a binary operation.
Parsing == last.op = "new" \/ last.op \in BinaryOps

NextCalls ==
  ({"new"} \cup BinaryOps) \X (SeqArgs \cup OwnRef)
  \cup {<<op, <<Undef, Undef>>>> : op \in UnaryOps}

\* The receiver of the client's next call.
Receiver == IF x = "none" THEN Free ELSE heap[x]

\* What the call c would return were the scratch record p.
ObservedWith(c, p) ==
  Observed(Call(c[1], p, heap, Receiver, c[2][1], c[2][2]), heap)

\* The call c can be made: an operation needs a receiver.
CanCall(c) == c[1] = "new" \/ x # "none"

\* C3: a call that fails with 'Invalid Param' fails atomically: it returns
\* no value, the receiver, the named constants and every value created
\* before keep their re and im, and every call made next returns what it
\* would have returned had the failed call not been made, whatever the
\* failed parse left in the scratch record.
C3_FailureAtomic ==
  [][last'.kind = "throw" =>
       /\ last'.ret = "none"
       /\ heap' = heap
       /\ x' = x
       /\ y' = y
       /\ \A c \in NextCalls :
            P' = P \/ ~CanCall(c) \/ ObservedWith(c, P') = ObservedWith(c, P)]_vars

\* C3's case: an operation failed on "1f" after its parse had written 1 to
\* the scratch record.
C3_FailedAfterWriting ==
  /\ last.op \in BinaryOps
  /\ last.kind = "throw"
  /\ last.a = Str(<<"1", "f">>)
  /\ P = <<NumInt(1), NumInt(0)>>
  /\ x = "o1"

\* C4: under sequential use the result of every constructor call and every
\* operation depends only on the receiver and the arguments: after any
\* history of calls, a call returns what it returns when the scratch record
\* is as the module loaded it.
C4_HistoryIndependent ==
  \A c \in NextCalls :
    P = Loaded.P \/ ~CanCall(c) \/ ObservedWith(c, P) = ObservedWith(c, Loaded.P)

\* C4's case: a history that ends with a failed parse, which left what it
\* had summed in the scratch record.
C4_AfterFailedParse ==
  /\ last.kind = "throw"
  /\ last.a = Str(<<"1", "f">>)
  /\ P # Loaded.P
  /\ x = "o1"

\* C5: no operation changes the re or im of its receiver, of a Complex value
\* passed as operand or of a named constant: the named constants hold what
\* they were created with after every step, and a call of an operation
\* leaves the receiver and the operand as they were.
C5_OperandsUnchanged ==
  [][/\ \A c \in Consts : heap'[c] = heap[c] /\ heap'[c] = ConstArgs(c)
     /\ last'.op \in CallOps =>
          /\ x' = x
          /\ heap'[x] = heap[x]
          /\ last'.a[1] = "ref" => heap'[last'.a[2]] = heap[last'.a[2]]]_vars

\* C5's case: a value was added to itself, and the sum is a new object.
C5_AddedToItself ==
  /\ last.op = "add"
  /\ last.a = <<"ref", "o1">>
  /\ x = "o1"
  /\ y = "o2"
  /\ heap["o2"] # heap["o1"]

\* The heap with the named constants as the module loaded them.
Pristine == [o \in ObjIds |-> IF o \in Consts THEN Loaded.heap[o] ELSE heap[o]]

\* The calls of the client that writes to what it was returned.
ClientCalls ==
  (ArithOps \X ClientArgs) \cup {<<"inverse", <<Undef, Undef>>>>}

\* C6: every value an operation returns is a new object, never a named
\* constant, so that a client's write to the re or im of a result changes
\* nothing a later operation returns.
C6_ResultsAreFresh ==
  /\ last.op \in CallOps => last.kind # "const"
  /\ \A c \in ClientCalls :
       x = "none"
       \/ Value(Call(c[1], P, heap, heap[x], c[2][1], c[2][2]), heap)
          = Value(Call(c[1], P, Pristine, heap[x], c[2][1], c[2][2]), Pristine)

\* What thread t's call returns when nothing runs beside it.
Expected(t) ==
  Value(Binary("add", Loaded.P, heap, heap[Recv(t)], thr[t].a, Undef), heap)

\* Thread t's call has returned something else.
WrongResult(t) == thr[t].pc = "done" /\ thr[t].res # Expected(t)

\* C7: with the one scratch record shared by all parse calls, two binary
\* operations running concurrently can interleave so that one computes with
\* what the other's parse wrote; the race takes two calls in progress and the
\* shared record: a call that runs alone, or whose parse has a pair of its
\* own, returns the right result.
C7_RaceNeedsSharedScratch ==
  \A t \in Threads :
    WrongResult(t) =>
      /\ thr[t].mode = "shared"
      /\ \E u \in Threads \ {t} : thr[u].pc # "idle"

\* C7's case: thread 1 called ONE.add(1), thread 2 called I.add(MaxInt), and
\* thread 1 returned the sum of ONE and thread 2's operand.
C7_RaceReached ==
  /\ thr[1].mode = "shared"
  /\ thr[1].pc = "done"
  /\ thr[1].a = NumInt(1)
  /\ thr[2].a = NumInt(MaxInt)
  /\ thr[1].res = <<NumInt(1 + MaxInt), NumInt(0)>>

\* C8: for add and sub, over every combination of the classes of receiver
\* and operand: the result is NAN when both are infinite, INFINITY when
\* exactly one is infinite, and otherwise the componentwise sum (add) or
\* difference (sub).
C8_AddSubPoleTable ==
  last.op \in {"add", "sub"} =>
    IF ClassInfinite(last.this) /\ ClassInfinite(Operand)
    THEN ReturnedConst("NAN")
    ELSE IF ClassInfinite(last.this) \/ ClassInfinite(Operand)
    THEN ReturnedConst("INFINITY")
    ELSE IF last.op = "add"
    THEN ReturnedNew(<<FAdd(last.this[1], last.a), FAdd(last.this[2], last.b)>>)
    ELSE ReturnedNew(<<FSub(last.this[1], last.a), FSub(last.this[2], last.b)>>)

\* (a + bi)(c + di) by the general formula: (ac - bd, ad + bc).
Product(t, z) ==
  <<FSub(FMul(t[1], z[1]), FMul(t[2], z[2])),
    FAdd(FMul(t[1], z[2]), FMul(t[2], z[1]))>>

\* C9: for mul, an infinite operand and an exactly zero one give NAN, an
\* infinite operand and a finite nonzero one give INFINITY, and two finite
\* operands give (ac - bd, ad + bc), also on the path taken when both
\* imaginary parts are 0.
C9_MulPoleTable ==
  last.op = "mul" =>
    /\ (ClassInfinite(last.this) /\ ClassZero(Operand))
       \/ (ClassZero(last.this) /\ ClassInfinite(Operand))
       => ReturnedConst("NAN")
    /\ (ClassInfinite(last.this) /\ ClassFinite(Operand) /\ ~ClassZero(Operand))
       \/ (ClassFinite(last.this) /\ ~ClassZero(last.this) /\ ClassInfinite(Operand))
       => ReturnedConst("INFINITY")
    /\ ClassFinite(last.this) /\ ClassFinite(Operand)
       => ReturnedNew(Product(last.this, Operand))

\* C9's case: two real operands whose product overflows, on the path for
\* real values.
C9_RealPathTaken ==
  /\ last.op = "mul"
  /\ last.this = <<Big, NumInt(0)>>
  /\ Operand = <<NumInt(-MaxInt), NumInt(0)>>
  /\ ReturnedNew(<<NegInf, NumInt(0)>>)

Norm2(z) == RatAdd(RatMul(z[1], z[1]), RatMul(z[2], z[2]))

\* (a + bi) / (c + di) in exact arithmetic:
\* ((ac + bd) / (c^2 + d^2), (bc - ad) / (c^2 + d^2)).
Quotient(t, z) ==
  <<RatDiv(RatAdd(RatMul(t[1], z[1]), RatMul(t[2], z[2])), Norm2(z)),
    RatDiv(RatAdd(RatMul(t[2], z[1]), FNeg(RatMul(t[1], z[2]))), Norm2(z))>>

\* A value whose components are integers of magnitude up to MaxInt: on these
\* no step of div leaves the range of the number format.
SmallInt(t) ==
  \A k \in 1..2 : t[k][3] = 1 /\ Abs(t[k][2]) <= MaxInt

\* C11: for finite operands and a nonzero divisor, div returns the quotient
\* ((ac + bd) / (c^2 + d^2), (bc - ad) / (c^2 + d^2)) of exact arithmetic, on
\* the path for a real divisor and on both branches of Smith's algorithm.
C11_DivExactQuotient ==
  (last.op = "div" /\ SmallInt(last.this) /\ SmallInt(Operand)
     /\ ~ClassZero(Operand))
  => IF ClassZero(last.this) THEN ReturnedConst("ZERO")
     ELSE ReturnedNew(Quotient(last.this, Operand))

\* C11's case: (2 - i) / (1 + 2i) = -i, on the branch |c| < |d|.
C11_SteepBranchTaken ==
  /\ last.op = "div"
  /\ last.this = <<NumInt(2), NumInt(-1)>>
  /\ Operand = <<NumInt(1), NumInt(2)>>
  /\ ReturnedNew(<<NumInt(0), NumInt(-1)>>)

\* The argument lists that pass an exponent of exactly zero: 0, "0",
\* Complex.ZERO and (0, 0).
ZeroExponents ==
  {<<NumInt(0), Undef>>, <<Str(<<"0">>), Undef>>, <<<<"ref", "ZERO">>, Undef>>,
   <<NumInt(0), NumInt(0)>>}

\* C12: pow with an exponent that is exactly zero returns ONE for every
\* base, the zero, infinite and NaN ones included, and for every shape the
\* exponent is passed in.
C12_PowZeroIsOne ==
  (last.op = "pow" /\ <<last.a, last.b>> \in ZeroExponents)
  => /\ ReturnedConst("ONE")
     /\ heap["ONE"] = <<NumInt(1), NumInt(0)>>

\* C12's case: 0 raised to the power "0".
C12_ZeroToZero ==
  /\ last.op = "pow"
  /\ last.this = <<NumInt(0), NumInt(0)>>
  /\ last.a = Str(<<"0">>)
  /\ ReturnedConst("ONE")

\* C13: every Complex value falls in exactly one of the classes finite,
\* infinite and NaN: isInfinite() is true exactly when the value is not
\* finite and not NaN, isNaN() exactly when a component is NaN, isFinite()
\* exactly when both components are finite, and no value has both isNaN()
\* and isInfinite() true.
C13_ExactlyOneClass ==
  /\ last.op = "isInfinite" => (last.bool <=> ClassInfinite(last.this))
  /\ last.op = "isNaN" => (last.bool <=> ClassNaN(last.this))
  /\ last.op = "isFinite" => (last.bool <=> ClassFinite(last.this))
  /\ (last.op = "isNaN" /\ last.bool) => ~IsInfiniteM(last.this)
  /\ (last.op = "isInfinite" /\ last.bool) => ~IsNaNM(last.this)

\* The components of t and z differ by at most EPSILON, in exact arithmetic.
WithinEpsilon(t, z) ==
  \A k \in 1..2 :
    Abs(RatAdd(t[k], FNeg(z[k]))[2]) * EpsilonDen <= RatAdd(t[k], FNeg(z[k]))[3]

\* What z.equals(t) returns.
EqualsReversed(t, z) == Binary("equals", P, heap, z, t[1], t[2]).bool

\* C14: on finite values equals returns true exactly when both components
\* differ by at most EPSILON, so that it is reflexive and symmetric; it
\* returns false whenever both values are infinite.
C14_EqualsWithinEpsilon ==
  last.op = "equals" =>
    /\ (ClassFinite(last.this) /\ ClassFinite(Operand)) =>
         /\ last.bool <=> WithinEpsilon(last.this, Operand)
         /\ last.bool <=> EqualsReversed(last.this, Operand)
         /\ last.this = Operand => last.bool
    /\ (ClassInfinite(last.this) /\ ClassInfinite(Operand)) => ~last.bool

\* C14's case: two values that differ, by less than EPSILON, were found
\* equal.
C14_EqualButDifferent ==
  /\ last.op = "equals"
  /\ last.this = <<NumInt(0), NumInt(1)>>
  /\ Operand = <<Tiny, NumInt(1)>>
  /\ last.kind = "bool"
  /\ last.bool

\* The step from the state after x.first() to the state after x.op(y), y
\* the object x.first() returned.
Chained(first, op) ==
  /\ last.op = first
  /\ last'.op = op
  /\ last'.a = <<"ref", y>>
  /\ last'.this = last.this

\* C15: for every finite z, z.add(z.neg()) is a value with both components
\* exactly 0, for which isZero() is true.
C15_AddNegIsZero ==
  [][(Chained("neg", "add") /\ ClassFinite(last.this)) =>
       /\ last'.kind \in {"new", "const"}
       /\ heap'[last'.ret] = <<NumInt(0), NumInt(0)>>
       /\ IsZeroM(heap'[last'.ret])]_vars

\* C15's case: the negation of a value with a very large and a very small
\* component was added to it.
C15_AddedItsNegation ==
  /\ last.op = "add"
  /\ last.this = <<Big, Tiny>>
  /\ last.a = <<"ref", "o2">>
  /\ ReturnedNew(<<NumInt(0), NumInt(0)>>)

\* C16: for every finite nonzero z, the very small and very large ones
\* included, z.inverse() is neither infinite nor NaN and z.mul(z.inverse())
\* is within EPSILON of ONE.
C16_MulInverseIsOne ==
  [][(Chained("inverse", "mul") /\ ClassFinite(last.this) /\ ~ClassZero(last.this)) =>
       /\ ClassFinite(heap[y])
       /\ last'.kind \in {"new", "const"}
       /\ ClassFinite(heap'[last'.ret])
       /\ WithinEpsilon(heap'[last'.ret], <<NumInt(1), NumInt(0)>>)]_vars

\* a^2 + b^2 and (a / (a^2 + b^2), -b / (a^2 + b^2)) in the number format.
SumSquares(t) == FAdd(FMul(t[1], t[1]), FMul(t[2], t[2]))

Reciprocal(t, d) == <<FDiv(t[1], d), FDiv(FNeg(t[2]), d)>>

ReturnedStr(cs) == last.kind = "str" /\ last.str = cs

\* C18: toString returns "NaN" for every value with a NaN component, also
\* when the other component is infinite, and "Infinity" for every infinite
\* value, whichever component is infinite and whatever its sign.
C18_NaNAndInfinityText ==
  last.op = "toString" =>
    /\ ClassNaN(last.this) => ReturnedStr(<<"N", "a", "N">>)
    /\ ClassInfinite(last.this) =>
         ReturnedStr(<<"I", "n", "f", "i", "n", "i", "t", "y">>)

\* C18's case: toString of a value with a NaN and an infinite component
\* returned "NaN".
C18_NaNBesideInfinity ==
  /\ last.op = "toString"
  /\ last.this = <<NegInf, NaN>>
  /\ ReturnedStr(<<"N", "a", "N">>)

\* A component as toString shows it: 0 when its magnitude is below EPSILON.
Snapped(v) == IF Abs(v[2]) * EpsilonDen < v[3] THEN NumInt(0) ELSE v

\* The imaginary part b # 0 as text: its magnitude unless that is 1, then i.
ImagText(b) ==
  (IF Abs(b[2]) = b[3] THEN <<>> ELSE NumToString(FAbs(b))) \o <<"i">>

\* The text of the finite value (a, b), both snapped.
FiniteText(a, b) ==
  IF b[2] = 0 THEN NumToString(a)
  ELSE IF a[2] # 0
       THEN NumToString(a)
            \o (IF b[2] < 0 THEN <<" ", "-", " ">> ELSE <<" ", "+", " ">>)
            \o ImagText(b)
  ELSE (IF b[2] < 0 THEN <<"-">> ELSE <<>>) \o ImagText(b)

C20_TextRoundTrip ==
  [][/\ (last.op = "toString" /\ ~ClassNaN(last.this)
           /\ ~ClassInfinite(last.this) /\ last'.op = "new") =>
          /\ last'.a = Str(last.str)
          /\ last'.kind = "new"
     /\ (last.op = "new" /\ last.a[1] = "str" /\ last.kind = "new"
           /\ last'.op = "toString") =>
          /\ last'.kind = "str"
          /\ Str(last'.str) = last.a]_vars

\* C20's case: toString of a value the constructor parsed from the string of
\* (1/3, -1) returned that string again.
C20_FormattedAgain ==
  /\ last.op = "toString"
  /\ last.this[1] \notin TextNums
  /\ last.this[2] = NumInt(-1)
  /\ ReturnedStr(NumToString(Third) \o <<" ", "-", " ", "i">>)

\* The integer next to a finite number away from zero.
AwayFromZero(v) == NumInt(Sgn(v[2]) * ((Abs(v[2]) + v[3] - 1) \div v[3]))

\* C21: with places 0 or absent, floor rounds each component of a finite
\* value towards zero and ceil rounds each component away from zero, for
\* components of either sign.
C21_FloorTowardsZero ==
  (last.op \in RoundOps /\ ClassFinite(last.this)
     /\ last.a \in {Undef, NumInt(0)}) =>
    IF last.op = "floor"
    THEN ReturnedNew(<<Trunc(last.this[1]), Trunc(last.this[2])>>)
    ELSE ReturnedNew(<<AwayFromZero(last.this[1]), AwayFromZero(last.this[2])>>)

\* C22: an object with the keys r and i is accepted by the constructor and
\* by every binary operation as the form {re, im}: the call does not throw,
\* the constructor gives re = r and im = i, and an operation returns what it
\* returns for {re: r, im: i}.
C22_RAndIAccepted ==
  (last.op \in BinaryOps \cup {"new"} /\ last.a[1] = "ri" /\ last.b = Undef) =>
    /\ last.kind # "throw"
    /\ last.op = "new" => ReturnedNew(<<last.a[2], last.a[3]>>)
    /\ last.op \in BinaryOps =>
         last.kind = Binary(last.op, P, heap, last.this,
                            <<"reim", last.a[2], last.a[3]>>, Undef).kind

\* C23: whenever the constructor is given a second argument the value has
\* re = the first argument and im = the second, also when the first is null
\* or absent; a single absent or null argument gives (0, 0).
C23_TwoArgumentsFirst ==
  last.op = "new" =>
    /\ last.b # Undef => ReturnedNew(<<last.a, last.b>>)
    /\ (last.b = Undef /\ last.a \in {Undef, Null}) =>
         ReturnedNew(<<NumInt(0), NumInt(0)>>)

\* The tokens of the string the constructor was given.
TokensGiven == Tokenize(StripUnderscores(last.a[2]))

\* A token that is a number: digits with a fraction or exponent, or a dot
\* and digits.
IsNumeral(t) == IsDigit(t[1]) \/ (Len(t) >= 2 /\ t[1] = "." /\ IsDigit(t[2]))

\* The index of the first token at or after i that is neither a sign nor
\* white space (Len(toks) + 1 when there is none).
TermStart(toks, i) ==
  IF \E k \in i..Len(toks) : ~IsSignToken(toks[k]) /\ ~IsWhiteToken(toks[k])
  THEN CHOOSE k \in i..Len(toks) :
         /\ ~IsSignToken(toks[k]) /\ ~IsWhiteToken(toks[k])
         /\ \A j \in i..(k - 1) : IsSignToken(toks[j]) \/ IsWhiteToken(toks[j])
  ELSE Len(toks) + 1

\* The number of sign tokens, and of '-' tokens, among toks[i .. k-1].
SignsBetween(toks, i, k) ==
  Cardinality({j \in i..(k - 1) : IsSignToken(toks[j])})

MinusBetween(toks, i, k) ==
  Cardinality({j \in i..(k - 1) : toks[j] = <<"-">>})

\* The term at token k as the text grammar states it: a number followed
\* by i, an i followed by a number, an i alone, or a number alone; in the
\* form of TermAt.
StatedTerm(toks, k) ==
  IF IsImagToken(toks[k])
  THEN (IF k < Len(toks) /\ IsNumeral(toks[k + 1]) THEN <<2, 2, toks[k + 1]>>
        ELSE <<1, 2, <<"1">>>>)
  ELSE (IF k < Len(toks) /\ IsImagToken(toks[k + 1]) THEN <<2, 2, toks[k]>>
        ELSE <<1, 1, toks[k]>>)

\* The value v with the sign that minus '-' tokens give it.
WithMinus(minus, v) == IF minus % 2 = 1 THEN FNeg(v) ELSE v

\* What the text grammar gives for the tokens from index i on, seen telling
\* whether a term came before and z being the sums so far: the terms are
\* read one after the other, each with the signs since the term before; the
\* extent of a term is that of the scanner, or the stated one when stated.
RECURSIVE Grammar(_, _, _, _, _)
Grammar(toks, i, seen, z, stated) ==
  LET k == TermStart(toks, i)
      tm == IF k > Len(toks) THEN <<0, 1, <<>>>>
            ELSE IF stated THEN StatedTerm(toks, k)
            ELSE TermAt(toks[k], TokenAfter(toks, k))
  IN  IF k > Len(toks)
      THEN [thrown |-> SignsBetween(toks, i, k) > 0 \/ ~seen, z |-> z]
      ELSE IF (seen /\ SignsBetween(toks, i, k) = 0)
              \/ (~IsImagToken(toks[k]) /\ ~IsNumeral(toks[k]))
      THEN [thrown |-> TRUE, z |-> z]
      ELSE Grammar(toks, k + tm[1], TRUE,
                   [z EXCEPT ![tm[2]] =
                      FAdd(z[tm[2]],
                           WithMinus(MinusBetween(toks, i, k), parseFloat(tm[3])))],
                   stated)

\* The outcome of the latest constructor call is the outcome g.
OutcomeIs(g) ==
  IF g.thrown THEN last.kind = "throw" ELSE ReturnedNew(g.z)

\* C24: in a string, each term has the sign that the number of '-' tokens
\* since the term before gives it, modulo 2; a number or i term other than
\* the first with no sign token before it makes the constructor throw, and
\* so do sign tokens that no term follows, a string of only signs or only
\* white space included.
C24_SignsOfTerms ==
  (last.op = "new" /\ last.a[1] = "str") =>
    OutcomeIs(Grammar(TokensGiven, 1, FALSE, <<NumInt(0), NumInt(0)>>, FALSE))

\* C24's case: "2--i" is 2 + i, the second term with two '-' before it.
C24_TwoMinusSigns ==
  /\ last.op = "new"
  /\ last.a = Str(<<"2", "-", "-", "i">>)
  /\ ReturnedNew(<<NumInt(2), NumInt(1)>>)

\* The characters of the tokens toks, in order.
RECURSIVE Joined(_)
Joined(toks) == IF toks = <<>> THEN <<>> ELSE Head(toks) \o Joined(Tail(toks))

\* toks with the white space character w put between tokens j and j + 1, and
\* toks with every white space token taken out.
Spaced(toks, j, w) ==
  Joined(SubSeq(toks, 1, j)) \o <<w>> \o Joined(SubSeq(toks, j + 1, Len(toks)))

Unspaced(toks) == Joined(SelectSeq(toks, LAMBDA t : ~IsWhiteToken(t)))

\* What the constructor makes of the string cs is the value v.
ParsesTo(cs, v) ==
  LET r == parseString(P, cs) IN ~r.thrown /\ r.P = v

\* C25: for a string that parses, a space, tab or newline put between any
\* two tokens, and the white space taken out, leave the parsed (re, im) as
\* it is: neither an error nor a NaN component comes of it.
C25_WhitespaceIgnored ==
  (last.op = "new" /\ last.a[1] = "str" /\ last.kind = "new") =>
    /\ ParsesTo(Unspaced(TokensGiven), heap[last.ret])
    /\ \A j \in 1..(Len(TokensGiven) - 1), w \in {" ", "\t", "\n"} :
         ParsesTo(Spaced(TokensGiven, j, w), heap[last.ret])

\* C26: in a string, a number with an i right after it is added, signed, to
\* im and the i is consumed; an i with a number right after it adds that
\* number, signed, to im and consumes it; an i followed by anything else or
\* by the end adds +1 or -1 to im; every other number is added to re; the
\* terms add up.
C26_TermsOfText ==
  (last.op = "new" /\ last.a[1] = "str") =>
    OutcomeIs(Grammar(TokensGiven, 1, FALSE, <<NumInt(0), NumInt(0)>>, TRUE))

\* (b i)^n for an integer n by the cycle of the powers of i: b^n by repeated
\* multiplication, on the real axis for even n and on the imaginary axis for
\* odd n, negated for n = 2 and 3 modulo 4.
CyclePow(b, n) ==
  CASE n % 4 = 0 -> <<IntPow(b, n), NumInt(0)>>
    [] n % 4 = 1 -> <<NumInt(0), IntPow(b, n)>>
    [] n % 4 = 2 -> <<FNeg(IntPow(b, n)), NumInt(0)>>
    [] n % 4 = 3 -> <<NumInt(0), FNeg(IntPow(b, n))>>

\* The latest call raised the imaginary number b i, b finite, to the
\* integer n.
ImaginaryToInteger ==
  /\ last.op = "pow"
  /\ last.this[1] = NumInt(0)
  /\ NumIsFinite(last.this[2])
  /\ last.b = Undef
  /\ last.a[1] = "num"
  /\ NumIsFinite(last.a)
  /\ last.a[3] = 1

\* C27: for an imaginary base b i and an integer exponent n of either sign,
\* pow returns (b^n, 0), (0, b^n), (-b^n, 0) or (0, -b^n) for n = 0, 1, 2, 3
\* modulo 4, also for negative b; so i^1 = i, i^2 = -1, i^3 = -i, i^4 = 1,
\* i^5 = i and i^7 = -i.
C27_PowersOfImaginary ==
  ImaginaryToInteger =>
    /\ last.kind \in {"new", "const"}
    /\ heap[last.ret] = CyclePow(last.this[2], last.a[2])
    /\ last.this[2] = NumInt(1) =>
         /\ last.a = NumInt(1) => heap[last.ret] = <<NumInt(0), NumInt(1)>>
         /\ last.a = NumInt(2) => heap[last.ret] = <<NumInt(-1), NumInt(0)>>
         /\ last.a = NumInt(3) => heap[last.ret] = <<NumInt(0), NumInt(-1)>>
         /\ last.a = NumInt(4) => heap[last.ret] = <<NumInt(1), NumInt(0)>>
         /\ last.a = NumInt(5) => heap[last.ret] = <<NumInt(0), NumInt(1)>>
         /\ last.a = NumInt(7) => heap[last.ret] = <<NumInt(0), NumInt(-1)>>

\* C27's case: (-2i)^-3 = -i/8.
C27_NegativeBaseAndExponent ==
  /\ last.op = "pow"
  /\ last.this = <<NumInt(0), NumInt(-2)>>
  /\ last.a = NumInt(-3)
  /\ ReturnedNew(<<NumInt(0), <<"num", -1, 8>>>>)

\* The latest call constructed a value from a polar form, {abs, arg} or
\* {r, phi}, of two numbers.
FromPolar ==
  /\ last.op = "new"
  /\ last.b = Undef
  /\ last.a[1] \in {"absarg", "rphi"}
  /\ last.a[2][1] = "num"
  /\ last.a[3][1] = "num"

\* C28: for both polar forms the value is that of INFINITY exactly when the
\* radius is infinite and the angle is finite, and otherwise
\* (radius cos(angle), radius sin(angle)); a NaN radius gives a NaN value.
C28_PolarForms ==
  FromPolar =>
    /\ IF NumIsInf(last.a[2]) /\ NumIsFinite(last.a[3])
       THEN ReturnedNew(heap["INFINITY"])
       ELSE ReturnedNew(<<FMul(last.a[2], FCos(last.a[3])),
                          FMul(last.a[2], FSin(last.a[3]))>>)
    /\ NumIsNaN(last.a[2]) => ClassNaN(heap[last.ret])

\* The call of thread 1 has returned.
StepDone == thr[1].pc = "done"

\* What the call in progress returns when it runs as one step from the
\* scratch record it was called with.
StepWhole ==
  Observed(Binary(thr[1].op, thr[1].before, heap, heap[thr[1].recv],
                  thr[1].a, thr[1].b), heap)

\* C29: under single-threaded execution every read of the operand in the
\* scratch record P happens before the next parse overwrites it: each read
\* an operation makes of its operand sees what the operand's parse wrote,
\* the constructor reads what its own parse wrote, and the call returns
\* what the operation computes from the parsed operand.
C29_ReadsBeforeOverwrite ==
  thr[1].pc # "idle" =>
    /\ thr[1].seen \subseteq {1}
    /\ thr[1].seenNew \subseteq {2}
    /\ StepDone => Observed(thr[1].out, heap) = StepWhole

\* A division that read its operand from P, constructed its result through
\* a second parse and returned it.
C29_DividedAndConstructed ==
  /\ StepDone
  /\ thr[1].op = "div"
  /\ thr[1].seen = {1}
  /\ thr[1].seenNew = {2}
  /\ thr[1].out.kind = "new"
  /\ P # thr[1].before

\* The latest call returned a value, constant or new, with a NaN component.
ReturnedNaNValue ==
  /\ last.kind \in {"const", "new"}
  /\ ClassNaN(heap[last.ret])

\* C30: NaN propagates through arithmetic: when the receiver or the operand
\* of add, sub, mul or div, or the receiver of inverse, has a NaN component,
\* the result has a NaN component; it is never INFINITY, ZERO or a finite
\* value.
C30_NaNPropagates ==
  /\ (last.op \in ArithOps /\ (ClassNaN(last.this) \/ ClassNaN(Operand)))
       => ReturnedNaNValue
  /\ (last.op = "inverse" /\ ClassNaN(last.this)) => ReturnedNaNValue
====
